---- MODULE Spec2Model ----
(***************************************************************************)
(* Verification model of code-sentinel: the unified-diff parser            *)
(* (platforms/github/diff-parser.ts), the comment position resolver, the   *)
(* GitHub adapter's inline-comment posting (platforms/github/adapter.ts),  *)
(* the context collector and the review analyzer with its severity filter  *)
(* (engine/context.ts), the output formatter (output/formatter.ts), the    *)
(* validation of the model's response (llm/ollama.ts) and the run of the   *)
(* action (index.ts).                                                      *)
(*                                                                         *)
(* Text is modelled as a sequence of one-character strings, so that        *)
(* split, startsWith and the hunk-header regular expression are computed   *)
(* as the code computes them.  A value that may be absent (undefined or    *)
(* null in the code) is a sequence of length 0 or 1.                       *)
(***************************************************************************)
EXTENDS Integers, Sequences, FiniteSets, TLC

VARIABLES
    \* ---- parsePatch, one step per loop iteration
    patch,          \* the argument: <<>> (undefined) or <<text>>
    pc,             \* "start" | "loop" | "done" | "threw" | "off"
    lines,          \* patch.split('\n')
    lineNo,         \* index of the next line the for-of loop reads
    oldLineNum,
    newLineNum,
    currentHunk,    \* <<>> (null) or <<hunk>>
    result,         \* the ParsedDiff under construction
    \* ---- findNearestValidLine, one step per call
    rpc,            \* "idle" | "resolved" | "again" | "off"
    rDiff,          \* the parsedDiff argument
    rTarget,        \* the targetLine argument
    rMaxDistance,   \* the maxDistance argument
    rValidLine,     \* the returned value: <<>> (undefined) or <<line>>
    rFrom,          \* <<t>> when rTarget is the line an earlier call returned for t
    \* ---- GitHubAdapter
    apc,            \* "new" | "ready" | "posted" | "failed" | "off"
    prFiles,        \* files of the PullRequest getPullRequest returned
    fileDiffs,      \* this.fileDiffs: file path -> ParsedDiff
    inComments,     \* the argument of postInlineComments
    reviews,        \* the comments arrays of the createReview requests issued
    postOutcome,    \* how postInlineComments ended
    skippedCount,
    \* ---- ReviewAnalyzer.filterBySeverity, one step per call
    fpc,            \* "idle" | "filtered" | "off"
    minSeverity,    \* config.review.min_severity
    fIssues,        \* the issues argument
    filteredIssues, \* the returned list
    \* ---- ReviewAnalyzer.analyze and ContextCollector.collect, one step per
    \*      loop iteration and per call of the model
    anPc,           \* "start" | "changed" | "related" | "built" | "llm" | "done"
                    \* | "threw" | "off"
    anPr,           \* the pr argument: [author, files]
    anConfig,       \* this.config: ignore.paths, ignore.authors, review.*
    tree,           \* the files of the working directory, in the order
                    \* readdirSync lists them
    relevantFiles,  \* collect: this.filterFiles(pr.files)
    fileIndex,      \* index of the file the running for-of loop reads next
    changedFiles,   \* collectChangedFiles: results
    relatedFiles,   \* collectRelatedFiles: results, sliced when it returns
    seenPaths,      \* collectRelatedFiles: seenPaths
    diff,           \* collect: the combined diff, <<>> until it is built
    calls,          \* the calls issued to the platform and to the model
    analysis,       \* the returned AnalysisResult, <<>> until analyze returns
    \* ---- OutputFormatter.format, one step per call
    fmtPc,          \* "idle" | "formatted" | "off"
    fmtConfig,      \* this.config.output and this.llmProviderName
    fmtResponse,    \* the response argument
    fmtIssues,      \* the filteredIssues argument
    output,         \* the returned FormattedOutput, <<>> until format returns
    \* ---- OllamaProvider.validateResponse, one step per call
    valPc,          \* "start" | "validated" | "threw" | "off"
    valResponse,    \* the argument: what JSON.parse returned
    valResult,      \* the returned ReviewResponse, <<>> until it returns
    \* ---- run of index.ts, one step per awaited call
    runPc,          \* "start" | "analyze" | "summary" | "comments" | "labels"
                    \* | "done" | "failed" | "off"
    dryRun,         \* core.getInput('dry_run') === 'true'
    actionOutputs,  \* the outputs core.setOutput has set, <<>> until then
    failures,       \* the number of core.setFailed calls
    published       \* the summary reviews and labels the platform holds

parseVars == <<patch, pc, lines, lineNo, oldLineNum, newLineNum, currentHunk, result>>

resolveVars == <<rpc, rDiff, rTarget, rMaxDistance, rValidLine, rFrom>>

adapterVars == <<apc, prFiles, fileDiffs, inComments, reviews, postOutcome, skippedCount>>

filterVars == <<fpc, minSeverity, fIssues, filteredIssues>>

analyzeVars ==
    <<anPc, anPr, anConfig, tree, relevantFiles, fileIndex, changedFiles,
      relatedFiles, seenPaths, diff, calls, analysis>>

formatVars == <<fmtPc, fmtConfig, fmtResponse, fmtIssues, output>>

validateVars == <<valPc, valResponse, valResult>>

runVars == <<runPc, dryRun, actionOutputs, failures, published>>

vars ==
    <<parseVars, resolveVars, adapterVars, filterVars, analyzeVars, formatVars,
      validateVars, runVars>>

----------------------------------------------------------------------------
(* Bounds of the model *)

MaxLines == 3        \* lines of a patch text
MaxHunkLines == 2    \* body lines of a hunk of the resolver's diffs
MaxTarget == 12      \* largest target line asked for
MaxDist == 4         \* largest maxDistance asked for
MaxFiles == 2        \* files of a pull request
MaxComments == 2     \* comments handed to postInlineComments
MaxIssues == 3       \* issues of a model response
MaxPrFiles == 2      \* files of the pull request the analyzer is given
MaxFormatIssues == 3 \* issues handed to the formatter
MaxRawIssues == 2    \* entries of the issues array of a parsed model response

----------------------------------------------------------------------------
(* Text helpers: JavaScript string operations on character sequences *)

NL == "\n"

RECURSIVE Concat(_)
Concat(ss) == IF ss = <<>> THEN <<>> ELSE Head(ss) \o Concat(Tail(ss))

RECURSIVE Join(_, _)
Join(ss, sep) ==
    IF ss = <<>> THEN <<>>
    ELSE IF Len(ss) = 1 THEN ss[1]
    ELSE ss[1] \o <<sep>> \o Join(Tail(ss), sep)

\* String.prototype.split(sep) for a one-character separator: always at
\* least one piece; "" splits into [""].
RECURSIVE SplitFrom(_, _, _)
SplitFrom(text, sep, cur) ==
    IF text = <<>> THEN <<cur>>
    ELSE IF Head(text) = sep THEN <<cur>> \o SplitFrom(Tail(text), sep, <<>>)
    ELSE SplitFrom(Tail(text), sep, Append(cur, Head(text)))

Split(text, sep) == SplitFrom(text, sep, <<>>)

startsWith(line, prefix) ==
    /\ Len(line) >= Len(prefix)
    /\ SubSeq(line, 1, Len(prefix)) = prefix

\* The character at position i, "" past the end of the string.
At(line, i) == IF i \in 1..Len(line) THEN line[i] ELSE ""

Digits == {"0", "1", "2", "3", "4", "5", "6", "7", "8", "9"}

IsDigit(c) == c \in Digits

\* \s of the regular expression.
IsSpace(c) == c \in {" ", "\t"}

DigitValue(c) ==
    CASE c = "0" -> 0 [] c = "1" -> 1 [] c = "2" -> 2 [] c = "3" -> 3
      [] c = "4" -> 4 [] c = "5" -> 5 [] c = "6" -> 6 [] c = "7" -> 7
      [] c = "8" -> 8 [] c = "9" -> 9

\* Number.parseInt(digits, 10) on a non-empty run of decimal digits.
RECURSIVE parseIntAcc(_, _)
parseIntAcc(ds, acc) ==
    IF ds = <<>> THEN acc
    ELSE parseIntAcc(Tail(ds), acc * 10 + DigitValue(Head(ds)))

parseInt(ds) == parseIntAcc(ds, 0)

DigitChar(d) ==
    CASE d = 0 -> "0" [] d = 1 -> "1" [] d = 2 -> "2" [] d = 3 -> "3"
      [] d = 4 -> "4" [] d = 5 -> "5" [] d = 6 -> "6" [] d = 7 -> "7"
      [] d = 8 -> "8" [] d = 9 -> "9"

\* String(n) of a template literal, for an integer n.
RECURSIVE NatToString(_)
NatToString(n) ==
    IF n < 10 THEN <<DigitChar(n)>>
    ELSE Append(NatToString(n \div 10), DigitChar(n % 10))

NumberToString(n) == IF n < 0 THEN <<"-">> \o NatToString(0 - n) ELSE NatToString(n)

\* First index >= i whose character is not a space / not a digit.
RECURSIVE SkipSpaces(_, _)
SkipSpaces(line, i) ==
    IF IsSpace(At(line, i)) THEN SkipSpaces(line, i + 1) ELSE i

RECURSIVE SkipDigits(_, _)
SkipDigits(line, i) ==
    IF IsDigit(At(line, i)) THEN SkipDigits(line, i + 1) ELSE i

\* End of the optional group (?:,(\d+))? that starts at i: past the digits
\* when a comma and at least one digit follow, i itself otherwise.
OptCountEnd(line, i) ==
    IF At(line, i) = "," /\ SkipDigits(line, i + 1) > i + 1
    THEN SkipDigits(line, i + 1)
    ELSE i

\* line.match(/^@@\s+-(\d+)(?:,(\d+))?\s+\+(\d+)(?:,(\d+))?\s+@@/):
\* <<>> when there is no match, else <<groups>> with groups 1, 3 and the
\* optional group 4 (<<>> when it did not take part in the match).
hunkMatch(line) ==
    LET s1  == SkipSpaces(line, 3)
        d1  == SkipDigits(line, s1 + 1)
        c1  == OptCountEnd(line, d1)
        s2  == SkipSpaces(line, c1)
        d2  == SkipDigits(line, s2 + 1)
        c2  == OptCountEnd(line, d2)
        s3  == SkipSpaces(line, c2)
        ok  == /\ At(line, 1) = "@" /\ At(line, 2) = "@"
               /\ s1 > 3
               /\ At(line, s1) = "-" /\ d1 > s1 + 1
               /\ s2 > c1
               /\ At(line, s2) = "+" /\ d2 > s2 + 1
               /\ s3 > c2
               /\ At(line, s3) = "@" /\ At(line, s3 + 1) = "@"
    IN  IF ok
        THEN << [g1 |-> SubSeq(line, s1 + 1, d1 - 1),
                 g3 |-> SubSeq(line, s2 + 1, d2 - 1),
                 g4 |-> IF c2 > d2 THEN <<SubSeq(line, d2 + 2, c2 - 1)>> ELSE <<>>] >>
        ELSE <<>>

----------------------------------------------------------------------------
(* parsePatch *)

EmptyDiff == [validNewLines |-> {}, validOldLines |-> {}, hunks |-> <<>>]

\* !patch: undefined or the empty string.
NoPatch(p) == p = <<>> \/ p[1] = <<>>

\* Lines 62-78: a hunk header closes the previous hunk and resets both
\* counters; m holds the groups of the match.
HunkHeaderLine(s, m) ==
    [ result      |-> IF s.currentHunk # <<>>
                      THEN [s.result EXCEPT !.hunks = Append(@, s.currentHunk[1])]
                      ELSE s.result,
      oldLineNum  |-> parseInt(m.g1),
      newLineNum  |-> parseInt(m.g3),
      threw       |-> s.threw,
      currentHunk |-> << [lines    |-> <<>>,
                          newStart |-> parseInt(m.g3),
                          newCount |-> IF m.g4 # <<>> /\ m.g4[1] # <<>>
                                       THEN parseInt(m.g4[1]) ELSE 1] >> ]

\* Lines 86-93: added line, only in the new file.
AddedLine(s) ==
    IF s.currentHunk = <<>> THEN [s EXCEPT !.threw = TRUE] ELSE
    [ s EXCEPT
      !.result.validNewLines = @ \cup {s.newLineNum},
      !.currentHunk[1].lines =
          Append(@, [newLine |-> s.newLineNum, oldLine |-> <<>>, type |-> "add"]),
      !.newLineNum = @ + 1 ]

\* Mutant: a removed line advances the new-file counter as well.
RemovedLineShifts(s) ==
    IF s.currentHunk = <<>> THEN [s EXCEPT !.threw = TRUE] ELSE
    [ s EXCEPT
      !.result.validOldLines = @ \cup {s.oldLineNum},
      !.currentHunk[1].lines =
          Append(@, [newLine |-> s.newLineNum, oldLine |-> <<s.oldLineNum>>,
                     type |-> "remove"]),
      !.oldLineNum = @ + 1,
      !.newLineNum = @ + 1 ]

\* Lines 95-102: removed line, only in the old file.
RemovedLine(s) ==
    IF s.currentHunk = <<>> THEN [s EXCEPT !.threw = TRUE] ELSE
    [ s EXCEPT
      !.result.validOldLines = @ \cup {s.oldLineNum},
      !.currentHunk[1].lines =
          Append(@, [newLine |-> s.newLineNum, oldLine |-> <<s.oldLineNum>>,
                     type |-> "remove"]),
      !.oldLineNum = @ + 1 ]

\* Mutant: a context line does not advance the old-file counter.
ContextLineStuck(s) ==
    IF s.currentHunk = <<>> THEN [s EXCEPT !.threw = TRUE] ELSE
    [ s EXCEPT
      !.result.validNewLines = @ \cup {s.newLineNum},
      !.result.validOldLines = @ \cup {s.oldLineNum},
      !.currentHunk[1].lines =
          Append(@, [newLine |-> s.newLineNum, oldLine |-> <<s.oldLineNum>>,
                     type |-> "context"]),
      !.newLineNum = @ + 1 ]

\* Lines 104-113: context line, in both files.
ContextLine(s) ==
    IF s.currentHunk = <<>> THEN [s EXCEPT !.threw = TRUE] ELSE
    [ s EXCEPT
      !.result.validNewLines = @ \cup {s.newLineNum},
      !.result.validOldLines = @ \cup {s.oldLineNum},
      !.currentHunk[1].lines =
          Append(@, [newLine |-> s.newLineNum, oldLine |-> <<s.oldLineNum>>,
                     type |-> "context"]),
      !.oldLineNum = @ + 1,
      !.newLineNum = @ + 1 ]

\* Mutant: the iteration without "if (!currentHunk) continue".
LoopBodyUnguarded(s, line) ==
    LET m == hunkMatch(line) IN
    IF m # <<>> THEN HunkHeaderLine(s, m[1])
    ELSE IF startsWith(line, <<"+">>) /\ ~startsWith(line, <<"+", "+", "+">>)
        THEN AddedLine(s)
    ELSE IF startsWith(line, <<"-">>) /\ ~startsWith(line, <<"-", "-", "-">>)
        THEN RemovedLine(s)
    ELSE IF startsWith(line, <<" ">>) \/ line = <<>>
        THEN ContextLine(s)
    ELSE s

\* One iteration of the for-of loop over the lines; s holds the loop's
\* mutable state (result, currentHunk, oldLineNum, newLineNum) and threw,
\* set when the iteration reads a property of a null currentHunk (a
\* TypeError in JavaScript).
LoopBody(s, line) ==
    LET m == hunkMatch(line) IN
    IF m # <<>> THEN HunkHeaderLine(s, m[1])
    ELSE IF s.currentHunk = <<>> THEN s
    ELSE IF startsWith(line, <<"+">>) /\ ~startsWith(line, <<"+", "+", "+">>)
        THEN AddedLine(s)
    ELSE IF startsWith(line, <<"-">>) /\ ~startsWith(line, <<"-", "-", "-">>)
        THEN RemovedLine(s)
    ELSE IF startsWith(line, <<" ">>) \/ line = <<>>
        THEN ContextLine(s)
    ELSE s

\* The loop state before the first iteration.
LoopStart ==
    [result |-> EmptyDiff, currentHunk |-> <<>>, oldLineNum |-> 0, newLineNum |-> 0,
     threw |-> FALSE]

\* "Save last hunk" and return.
SaveLast(s) ==
    IF s.currentHunk # <<>>
    THEN [s.result EXCEPT !.hunks = Append(@, s.currentHunk[1])]
    ELSE s.result

RECURSIVE RunLoop(_, _)
RunLoop(s, ls) == IF ls = <<>> THEN s ELSE RunLoop(LoopBody(s, Head(ls)), Tail(ls))

parsePatch(p) ==
    IF NoPatch(p) THEN EmptyDiff
    ELSE SaveLast(RunLoop(LoopStart, Split(p[1], NL)))

----------------------------------------------------------------------------
(* isValidCommentLine and findNearestValidLine *)

isValidCommentLine(line, parsedDiff) == line \in parsedDiff.validNewLines

\* Mutant: at each offset the line below is tried before the line above.
RECURSIVE SearchNearbyBelowFirst(_, _, _, _)
SearchNearbyBelowFirst(targetLine, parsedDiff, offset, maxDistance) ==
    IF offset > maxDistance THEN <<>>
    ELSE IF (targetLine + offset) \in parsedDiff.validNewLines
        THEN <<targetLine + offset>>
    ELSE IF (targetLine - offset) \in parsedDiff.validNewLines
        THEN <<targetLine - offset>>
    ELSE SearchNearbyBelowFirst(targetLine, parsedDiff, offset + 1, maxDistance)

\* Lines 153-165: the for loop from the given offset on; <<>> is undefined.
RECURSIVE SearchNearby(_, _, _, _)
SearchNearby(targetLine, parsedDiff, offset, maxDistance) ==
    IF offset > maxDistance THEN <<>>
    ELSE IF (targetLine - offset) \in parsedDiff.validNewLines
        THEN <<targetLine - offset>>
    ELSE IF (targetLine + offset) \in parsedDiff.validNewLines
        THEN <<targetLine + offset>>
    ELSE SearchNearby(targetLine, parsedDiff, offset + 1, maxDistance)

\* Mutant: the loop runs one offset too far (offset <= maxDistance + 1).
findNearestValidLineTooFar(targetLine, parsedDiff, maxDistance) ==
    IF targetLine \in parsedDiff.validNewLines THEN <<targetLine>>
    ELSE SearchNearby(targetLine, parsedDiff, 1, maxDistance + 1)

\* Mutant: the exact-line check is missing.
findNearestValidLineNoExact(targetLine, parsedDiff, maxDistance) ==
    SearchNearby(targetLine, parsedDiff, 1, maxDistance)

findNearestValidLine(targetLine, parsedDiff, maxDistance) ==
    IF targetLine \in parsedDiff.validNewLines THEN <<targetLine>>
    ELSE SearchNearby(targetLine, parsedDiff, 1, maxDistance)

----------------------------------------------------------------------------
(* GitHubAdapter: getPullRequest's diff store and postInlineComments *)

\* adapter.ts:189, the maxDistance postInlineComments passes.
PostMaxDistance == 3

NoDiffs == [f \in {} |-> EmptyDiff]

\* Map.prototype.set
MapSet(map, key, value) ==
    [k \in DOMAIN map \cup {key} |-> IF k = key THEN value ELSE map[k]]

\* Mutant: only the diff of the first file is stored.
StoreDiffsFirstOnly(files, map) ==
    IF files = <<>> \/ NoPatch(Head(files).patch) THEN map
    ELSE MapSet(map, Head(files).filename, parsePatch(Head(files).patch))

\* Lines 43-56: files.map stores the parsed diff of every file with a patch.
RECURSIVE StoreDiffs(_, _)
StoreDiffs(files, map) ==
    IF files = <<>> THEN map
    ELSE StoreDiffs(Tail(files),
                    IF ~NoPatch(Head(files).patch)
                    THEN MapSet(map, Head(files).filename, parsePatch(Head(files).patch))
                    ELSE map)

\* `*(Note: Originally for line ${line})*\n\n${body}`
NoteBody(line, body) ==
    <<"*", "(", "N", "o", "t", "e", ":", " ", "O", "r", "i", "g", "i", "n", "a", "l",
      "l", "y", " ", "f", "o", "r", " ", "l", "i", "n", "e", " ">>
        \o NumberToString(line) \o <<")", "*", NL, NL>> \o body

\* Mutant: an unresolvable line is posted where it was asked for.
ValidateCommentFallback(comment, diffs) ==
    IF comment.path \notin DOMAIN diffs THEN <<>>
    ELSE LET validLine == findNearestValidLine(comment.line, diffs[comment.path],
                                               PostMaxDistance)
         IN  IF validLine = <<>> THEN <<comment>>
             ELSE << [path |-> comment.path,
                      line |-> validLine[1],
                      body |-> IF validLine[1] # comment.line
                               THEN NoteBody(comment.line, comment.body)
                               ELSE comment.body,
                      side |-> comment.side] >>

\* Mutant: a shifted comment keeps its body as it was.
ValidateCommentSilent(comment, diffs) ==
    IF comment.path \notin DOMAIN diffs THEN <<>>
    ELSE LET validLine == findNearestValidLine(comment.line, diffs[comment.path],
                                               PostMaxDistance)
         IN  IF validLine = <<>> THEN <<>>
             ELSE << [path |-> comment.path,
                      line |-> validLine[1],
                      body |-> comment.body,
                      side |-> comment.side] >>

\* Lines 178-211, one iteration: <<>> when the comment is skipped, else the
\* comment pushed onto validComments.
ValidateComment(comment, diffs) ==
    IF comment.path \notin DOMAIN diffs THEN <<>>
    ELSE LET validLine == findNearestValidLine(comment.line, diffs[comment.path],
                                               PostMaxDistance)
         IN  IF validLine = <<>> THEN <<>>
             ELSE << [path |-> comment.path,
                      line |-> validLine[1],
                      body |-> IF validLine[1] # comment.line
                               THEN NoteBody(comment.line, comment.body)
                               ELSE comment.body,
                      side |-> comment.side] >>

\* The validComments array after the loop over comments.
RECURSIVE ValidComments(_, _)
ValidComments(comments, diffs) ==
    IF comments = <<>> THEN <<>>
    ELSE ValidateComment(Head(comments), diffs) \o ValidComments(Tail(comments), diffs)

----------------------------------------------------------------------------
(* ReviewAnalyzer.filterBySeverity *)

severityOrder == <<"critical", "warning", "suggestion", "nitpick">>

\* Array.prototype.indexOf: zero-based, -1 when absent.
indexOf(array, x) ==
    IF \E i \in 1..Len(array) : array[i] = x
    THEN (CHOOSE i \in 1..Len(array) :
              array[i] = x /\ \A j \in 1..(i - 1) : array[j] # x) - 1
    ELSE 0 - 1

\* Mutant: an issue is kept only when its severity is the configured one.
filterBySeverityEqual(issues, min_severity) ==
    LET minIndex == indexOf(severityOrder, min_severity)
        keep(issue) == indexOf(severityOrder, issue.severity) = minIndex
    IN  SelectSeq(issues, keep)

filterBySeverity(issues, min_severity) ==
    LET minIndex == indexOf(severityOrder, min_severity)
        keep(issue) == indexOf(severityOrder, issue.severity) <= minIndex
    IN  SelectSeq(issues, keep)

----------------------------------------------------------------------------
(* OllamaProvider.validateResponse, on values as JSON.parse returns them *)

\* A parsed JSON value carries its kind; numbers are held in tenths, so
\* that 2.5 is 25.  A property that is not there reads as Undefined.
Undefined == [type |-> "undefined"]

JsonNull == [type |-> "null"]

JsonString(text) == [type |-> "string", str |-> text]

JsonNumber(n) == [type |-> "number", tenths |-> n]

JsonArray(xs) == [type |-> "array", items |-> xs]

JsonObject(fs) == [type |-> "object", fields |-> fs]

\* typeof value === 'string', typeof value === 'number'.
TypeOf(value) ==
    CASE value.type \in {"null", "array"} -> "object"
      [] OTHER -> value.type

\* The value in a condition: null, undefined, 0 and '' are falsy.
Truthy(value) ==
    CASE value.type \in {"undefined", "null"} -> FALSE
      [] value.type = "string" -> value.str # <<>>
      [] value.type = "number" -> value.tenths # 0
      [] OTHER -> TRUE

\* value.name; undefined for a missing property and for a property of a
\* number or a string.
Get(value, name) ==
    IF value.type = "object" /\ name \in DOMAIN value.fields
    THEN value.fields[name]
    ELSE Undefined

\* Math.round of a number in tenths: the nearest integer, halves go up.
MathRound(n) == (n + 5) \div 10

\* Lines 70-74.
ValidEffortScore(value) ==
    LET effortScore == IF ~Truthy(value) \/ TypeOf(value) # "number"
                       THEN 30
                       ELSE value.tenths
        rounded == MathRound(effortScore)
        capped == IF rounded < 5 THEN rounded ELSE 5
    IN  IF capped > 1 THEN capped ELSE 1

\* Lines 80-88: the filter on r.issues.
ValidIssue(issue) ==
    /\ Truthy(issue)
    /\ TypeOf(Get(issue, "severity")) = "string"
    /\ TypeOf(Get(issue, "category")) = "string"
    /\ TypeOf(Get(issue, "file")) = "string"
    /\ TypeOf(Get(issue, "title")) = "string"
    /\ TypeOf(Get(issue, "description")) = "string"

\* Lines 63-91, for a response that is an object: the values of r.summary,
\* r.effortScore and r.issues when validateResponse returns.
validateResponse(response) ==
    LET summary == Get(response, "summary")
        issues == Get(response, "issues")
    IN  [summary |-> IF ~Truthy(summary) \/ TypeOf(summary) # "string"
                     THEN <<"U", "n", "a", "b", "l", "e", " ", "t", "o", " ", "g",
                           "e", "n", "e", "r", "a", "t", "e", " ", "s", "u", "m",
                           "m", "a", "r", "y", ".">>
                     ELSE summary.str,
         effortScore |-> ValidEffortScore(Get(response, "effortScore")),
         issues |-> IF issues.type # "array" THEN <<>>
                    ELSE SelectSeq(issues.items, ValidIssue)]

\* A validated issue read as a ReviewIssue (part_001:34-44).
AsReviewIssue(issue) ==
    [severity |-> issue.fields.severity.str, title |-> issue.fields.title.str]

----------------------------------------------------------------------------
(* minimatch, path.dirname and path.extname, as engine/context.ts uses them *)

\* Index of the last occurrence of the character c in text, 0 when absent.
LastIndexOf(text, c) ==
    IF \E i \in 1..Len(text) : text[i] = c
    THEN CHOOSE i \in 1..Len(text) :
             text[i] = c /\ \A j \in (i + 1)..Len(text) : text[j] # c
    ELSE 0

\* path.dirname of a relative path without a trailing slash.
dirname(p) ==
    LET i == LastIndexOf(p, "/") IN
    IF i = 0 THEN <<".">> ELSE IF i = 1 THEN <<"/">> ELSE SubSeq(p, 1, i - 1)

\* path.extname: from the last '.' of the base name on, "" when the base
\* name has no '.' or only a leading one.
extname(p) ==
    LET b == SubSeq(p, LastIndexOf(p, "/") + 1, Len(p))
        i == LastIndexOf(b, ".")
    IN  IF i <= 1 THEN <<>> ELSE SubSeq(b, i, Len(b))

\* One path segment against one pattern segment: '*' stands for any run of
\* characters, every other character for itself.
RECURSIVE GlobChars(_, _)
GlobChars(seg, pat) ==
    IF pat = <<>> THEN seg = <<>>
    ELSE IF Head(pat) = "*"
        THEN GlobChars(seg, Tail(pat)) \/ (seg # <<>> /\ GlobChars(Tail(seg), pat))
    ELSE seg # <<>> /\ Head(seg) = Head(pat) /\ GlobChars(Tail(seg), Tail(pat))

\* With the default options (dot: false) a segment that starts with '.' is
\* matched only by a pattern segment that starts with '.'.
DotFile(seg) == At(seg, 1) = "."

SegMatch(seg, pat) ==
    /\ DotFile(seg) => At(pat, 1) = "."
    /\ GlobChars(seg, pat)

\* The segments of a path against the segments of a pattern; a '**' segment
\* stands for any number of directories, none of them a dot file, and as the
\* last segment of the pattern for at least one.
RECURSIVE SegsMatch(_, _)
SegsMatch(segs, pats) ==
    IF pats = <<>> THEN segs = <<>>
    ELSE IF Head(pats) = <<"*", "*">>
        THEN IF Len(pats) = 1
             THEN segs # <<>> /\ \A i \in 1..Len(segs) : ~DotFile(segs[i])
             ELSE \/ SegsMatch(segs, Tail(pats))
                  \/ /\ segs # <<>> /\ ~DotFile(Head(segs))
                     /\ SegsMatch(Tail(segs), pats)
    ELSE /\ segs # <<>>
         /\ SegMatch(Head(segs), Head(pats))
         /\ SegsMatch(Tail(segs), Tail(pats))

\* minimatch(path, pattern) for patterns of literal characters, '*' and '**'.
minimatch(p, pattern) == SegsMatch(Split(p, "/"), Split(pattern, "/"))

----------------------------------------------------------------------------
(* ContextCollector *)

\* context.ts:109, the cap on the related files of one run.
MaxRelated == 5

\* context.ts:124, the entries of a directory listing that are looked at.
MaxSiblings == 2

\* context.ts:159, the default maxLines of truncateForContext.
MaxContextLines == 100

\* Array.prototype.slice(0, n)
Slice(array, n) == SubSeq(array, 1, IF Len(array) < n THEN Len(array) ELSE n)

\* Array.prototype.map(f => f.filename)
RECURSIVE Filenames(_)
Filenames(files) ==
    IF files = <<>> THEN <<>> ELSE <<Head(files).filename>> \o Filenames(Tail(files))

\* Array.prototype.map(c => c.path)
RECURSIVE Paths(_)
Paths(contexts) ==
    IF contexts = <<>> THEN <<>> ELSE <<Head(contexts).path>> \o Paths(Tail(contexts))

Range(array) == { array[i] : i \in 1..Len(array) }

\* The truthiness of a fetched content: neither null nor the empty string.
HasContent(content) == content # <<>> /\ content[1] # <<>>

\* Mutant: a file of status deleted is kept.
KeepFileDeleted(file, ignorePaths) ==
    ~\E i \in 1..Len(ignorePaths) : minimatch(file.filename, ignorePaths[i])

\* Lines 57-72, the predicate of the filter.
KeepFile(file, ignorePaths) ==
    /\ file.status # "deleted"
    /\ ~\E i \in 1..Len(ignorePaths) : minimatch(file.filename, ignorePaths[i])

filterFiles(files, ignorePaths) ==
    LET keep(file) == KeepFile(file, ignorePaths) IN SelectSeq(files, keep)

\* Mutant: a file is pushed whatever the fetch returned.
ChangedFileResultAlways(file, content) ==
    << [path |-> file.filename,
        content |-> IF content = <<>> THEN <<>> ELSE content[1],
        role |-> "changed"] >>

\* Lines 78-88, one iteration of collectChangedFiles: what it pushes.
ChangedFileResult(file, content) ==
    IF HasContent(content)
    THEN << [path |-> file.filename, content |-> content[1], role |-> "changed"] >>
    ELSE <<>>

\* Lines 159-167.  content.split('\n') has one piece more than content has
\* newlines; lines.slice(0, maxLines).join('\n') is the text in front of the
\* maxLines-th newline; behind it goes
\* `\n... (truncated, ${lines.length - maxLines} more lines)`.
truncateForContext(content, maxLines) ==
    LET length == Cardinality({ i \in 1..Len(content) : content[i] = NL }) + 1
        cut == CHOOSE i \in 1..Len(content) :
                   /\ content[i] = NL
                   /\ Cardinality({ j \in 1..i : content[j] = NL }) = maxLines
    IN  IF length <= maxLines THEN content
        ELSE SubSeq(content, 1, cut - 1)
                \o <<NL, ".", ".", ".", " ", "(", "t", "r", "u", "n", "c", "a",
                      "t", "e", "d", ",", " ">>
                \o NumberToString(length - maxLines)
                \o <<" ", "m", "o", "r", "e", " ", "l", "i", "n", "e", "s", ")">>

\* `${dir}/*${ext}`
SiblingPattern(filePath) == dirname(filePath) \o <<"/", "*">> \o extname(filePath)

\* adapter.ts:102-137, getFilesInDirectory: the files of the working
\* directory that the pattern matches, in the order of the scan.
getFilesInDirectory(files, pattern) ==
    LET matches(relativePath) == minimatch(relativePath, pattern)
    IN  SelectSeq(files, matches)

\* Mutant: the exclusions are applied before the cut to MaxSiblings.
SiblingCandidatesFilterFirst(filePath, exclude, siblings) ==
    LET wanted(siblingPath) == ~(siblingPath \in exclude \/ siblingPath = filePath)
    IN  Slice(SelectSeq(siblings, wanted), MaxSiblings)

\* Lines 124-127: the listed paths whose content findSiblingFiles asks for.
SiblingCandidates(filePath, exclude, siblings) ==
    LET wanted(siblingPath) == ~(siblingPath \in exclude \/ siblingPath = filePath)
    IN  SelectSeq(Slice(siblings, MaxSiblings), wanted)

\* findSiblingFiles when the listing returns `siblings` and the content of a
\* path is contentOf[path].
findSiblingFiles(filePath, exclude, siblings, contentOf) ==
    LET readable(siblingPath) == HasContent(contentOf[siblingPath])
        found == SelectSeq(SiblingCandidates(filePath, exclude, siblings), readable)
    IN  [ i \in 1..Len(found) |->
            [path |-> found[i],
             content |-> truncateForContext(contentOf[found[i]][1],
                   MaxContextLines),
             role |-> "sibling"] ]

\* `diff --git a/${file.filename} b/${file.filename}`
DiffHeader(filename) == <<"d", "i", "f", "f", " ", "-", "-", "g", "i", "t", " ",
      "a", "/">> \o filename \o <<" ", "b", "/">> \o filename

\* Mutant: the parts of a later file go in front of those of an earlier one.
RECURSIVE DiffPartsUnshift(_)
DiffPartsUnshift(files) ==
    IF files = <<>> THEN <<>>
    ELSE DiffPartsUnshift(Tail(files))
            \o (IF ~NoPatch(Head(files).patch)
                THEN <<DiffHeader(Head(files).filename), Head(files).patch[1]>>
                ELSE <<>>)

\* Mutant: the header is pushed for a file without a patch as well.
RECURSIVE DiffPartsHeaderAlways(_)
DiffPartsHeaderAlways(files) ==
    IF files = <<>> THEN <<>>
    ELSE <<DiffHeader(Head(files).filename)>>
            \o (IF ~NoPatch(Head(files).patch) THEN <<Head(files).patch[1]>> ELSE <<>>)
            \o DiffPartsHeaderAlways(Tail(files))

\* Lines 149-154: the parts array after the loop.
RECURSIVE DiffParts(_)
DiffParts(files) ==
    IF files = <<>> THEN <<>>
    ELSE (IF ~NoPatch(Head(files).patch)
          THEN <<DiffHeader(Head(files).filename), Head(files).patch[1]>>
          ELSE <<>>) \o DiffParts(Tail(files))

buildDiff(files) == Join(DiffParts(files), NL)

----------------------------------------------------------------------------

(* ReviewAnalyzer.analyze *)

emptyResponse ==
    [summary |-> <<"N", "o", " ", "i", "s", "s", "u", "e", "s", " ", "f", "o", "u",
          "n", "d", ".">>, effortScore |-> 1, issues |-> <<>>]

\* `PR author ${pr.author} is in ignore list`
AuthorSkipReason(author) == <<"P", "R", " ", "a", "u", "t", "h", "o", "r",
      " ">> \o author \o <<" ", "i", "s", " ", "i", "n", " ", "i", "g", "n", "o",
      "r", "e", " ", "l", "i", "s", "t">>

NoFilesSkipReason == <<"N", "o", " ", "r", "e", "v", "i", "e", "w", "a", "b", "l",
      "e", " ", "f", "i", "l", "e", "s", " ", "i", "n", " ", "P", "R">>

\* `PR effort score (${effortScore}) below threshold (${skip_if_effort_below})`
EffortSkipReason(effortScore, threshold) ==
    <<"P", "R", " ", "e", "f", "f", "o", "r", "t", " ", "s", "c", "o", "r", "e",
          " ", "(">> \o NumberToString(effortScore)
        \o <<")", " ", "b", "e", "l", "o", "w", " ", "t", "h", "r", "e", "s", "h",
              "o", "l", "d", " ", "(">> \o NumberToString(threshold) \o <<")">>

\* Mutant: a skipped result keeps the issues of the response.
SkippedResultKeepsIssues(response, reason) ==
    [response |-> response, filteredIssues |-> response.issues, skipped |-> TRUE,
     skipReason |-> <<reason>>]

\* An AnalysisResult of a skipped run.
SkippedResult(response, reason) ==
    [response |-> response, filteredIssues |-> <<>>, skipped |-> TRUE,
     skipReason |-> <<reason>>]

\* Mutant: the author check is missing.
AuthorIgnoredNever(pr, config) == FALSE

\* Line 198.
AuthorIgnored(pr, config) ==
    \E i \in 1..Len(config.ignore.authors) : config.ignore.authors[i] = pr.author

\* Mutant: the check for an empty changedFiles is missing.
NoReviewableFilesNever(changed) == FALSE

\* Line 210.
NoReviewableFiles(changed) == Len(changed) = 0

\* Mutant: a score equal to the threshold is skipped as well.
BelowThresholdOrEqual(response, config) ==
    response.effortScore <= config.review.skip_if_effort_below

\* Line 238.
BelowThreshold(response, config) ==
    response.effortScore < config.review.skip_if_effort_below

\* Lines 237-254: what analyze returns for the response of the model.
GateResult(response, config) ==
    IF BelowThreshold(response, config)
    THEN SkippedResult(response,
             EffortSkipReason(response.effortScore,
                   config.review.skip_if_effort_below))
    ELSE [response |-> response,
          filteredIssues |-> filterBySeverity(response.issues,
                config.review.min_severity),
          skipped |-> FALSE,
          skipReason |-> <<>>]

----------------------------------------------------------------------------

(* Patch texts the model draws from *)

HunkHeader(oldStart, oldCount, newStart, newCount) ==
    <<"@", "@", " ", "-">> \o oldStart \o oldCount
        \o <<" ", "+">> \o newStart \o newCount \o <<" ", "@", "@">>

HeaderLines ==
    { HunkHeader(<<"1">>, <<",", "3">>, <<"1">>, <<",", "5">>),
      HunkHeader(<<"5">>, <<",", "2">>, <<"5">>, <<",", "2">>),
      HunkHeader(<<"3">>, <<>>, <<"1", "0">>, <<>>) }

BodyLines ==
    { <<>>,                     \* empty line
      <<" ", "a">>,             \* context
      <<"+", "a">>,             \* addition
      <<"+", "+", "+", "a">>,
      <<"-", "a">>,             \* removal
      <<"-", "-", "-", "a">>,
      <<"\\", "a">>,            \* "\ No newline at end of file"
      <<"@", "@", " ", "-", "1", " ", "@", "@">> }   \* no header: no +side

PatchLines == HeaderLines \cup BodyLines

SeqsUpTo(S, n) == UNION { [1..k -> S] : k \in 1..n }

PatchTexts == { Join(ls, NL) : ls \in SeqsUpTo(PatchLines, MaxLines) }

Patches == {<<>>} \cup { <<t>> : t \in PatchTexts }

\* The diffs the resolver is asked about: parsed from patches of one or two
\* hunks, each a header followed by context and removed lines.
HunkBodies == {<<>>} \cup SeqsUpTo({<<" ", "a">>, <<"-", "a">>}, MaxHunkLines)

HunkTexts == { Join(<<h>> \o b, NL) : h \in HeaderLines, b \in HunkBodies }

ResolverPatches ==
    {<<>>} \cup { <<t>> : t \in HunkTexts }
           \cup { <<t1 \o <<NL>> \o t2>> : t1 \in HunkTexts, t2 \in HunkTexts }

ResolverDiffs == { parsePatch(p) : p \in ResolverPatches }

\* Pull-request files: distinct paths, each with no patch, an empty patch, a
\* patch of context lines 5-6 or a patch adding line 10.
Patch_5_6 ==
    Join(<<HunkHeader(<<"5">>, <<",", "2">>, <<"5">>, <<",", "2">>),
           <<" ", "a">>, <<" ", "a">>>>, NL)

Patch_10 == Join(<<HunkHeader(<<"3">>, <<>>, <<"1", "0">>, <<>>), <<"+", "a">>>>, NL)

FilePatches == {<<>>, << <<>> >>, <<Patch_5_6>>, <<Patch_10>>}

FileNames == {"a.ts", "b.ts"}

ChangedFiles == [filename : FileNames, patch : FilePatches]

Injective(fs) ==
    \A i, j \in 1..Len(fs) : fs[i].filename = fs[j].filename => i = j

FileLists ==
    {<<>>} \cup { fs \in SeqsUpTo(ChangedFiles, MaxFiles) : Injective(fs) }

\* Inline comments as the formatter hands them over: side RIGHT, the body
\* starting with the severity icon; one body per path.
CommentBody(path) ==
    IF path = "a.ts" THEN <<"i", " ", "*", "*", "A", "*", "*">>
    ELSE <<"i", " ", "*", "*", "B", "*", "*">>

ReviewComments ==
    { [path |-> p, line |-> l, body |-> CommentBody(p), side |-> "RIGHT"] :
        p \in FileNames, l \in {1, 4, 5} }

CommentLists == {<<>>} \cup SeqsUpTo(ReviewComments, MaxComments)

\* Issues of a validated model response: the severity is a string, one of
\* the four of the Severity type or another one.
Severities == {"critical", "warning", "suggestion", "nitpick"}

ReviewIssues == [severity : Severities \cup {"blocker"}, title : {"t1", "t2"}]

IssueLists == {<<>>} \cup SeqsUpTo(ReviewIssues, MaxIssues)

----------------------------------------------------------------------------
(* OutputFormatter *)

\* The text of a severity or category word.
Word(w) ==
    CASE w = "critical" -> <<"c", "r", "i", "t", "i", "c", "a", "l">>
      [] w = "warning" -> <<"w", "a", "r", "n", "i", "n", "g">>
      [] w = "suggestion" -> <<"s", "u", "g", "g", "e", "s", "t", "i", "o", "n">>
      [] w = "nitpick" -> <<"n", "i", "t", "p", "i", "c", "k">>
      [] w = "blocker" -> <<"b", "l", "o", "c", "k", "e", "r">>
      [] w = "security" -> <<"s", "e", "c", "u", "r", "i", "t", "y">>
      [] w = "bugs" -> <<"b", "u", "g", "s">>

\* Lines 175-188; each icon is one element of the text.
getSeverityIcon(severity) ==
    CASE severity = "critical" -> "U+1F534"
      [] severity = "warning" -> "U+1F7E1"
      [] severity = "suggestion" -> "U+1F4A1"
      [] severity = "nitpick" -> "U+1F4DD"
      [] OTHER -> "U+2139"

\* Mutant: the location is left out of every issue line.
formatIssueLineNoLocation(issue) ==
    <<"-", " ", "*", "*">> \o issue.title \o <<"*", "*", " ", "i", "n", " ",
          "U+0060">> \o issue.file \o <<"U+0060", " ", "-", " ">> \o issue.description

\* Lines 98-101: the location is left out for a line that is undefined or 0.
\* A backtick is the element "U+0060" of a text.
formatIssueLine(issue) ==
    LET location == IF issue.line # <<>> /\ issue.line[1] # 0
                    THEN <<":">> \o NumberToString(issue.line[1])
                    ELSE <<>>
    IN  <<"-", " ", "*", "*">> \o issue.title \o <<"*", "*", " ", "i", "n", " ",
          "U+0060">> \o issue.file \o location
            \o <<"U+0060", " ", "-", " ">> \o issue.description

\* Lines 26-96.  getStars (171-173) repeats two empty strings.
formatSummary(response, issues, llmProviderName) ==
    LET repeat(text, n) ==
            [i \in 1..(Len(text) * n) |-> text[((i - 1) % Len(text)) + 1]]
        getStars(score) == repeat(<<>>, score) \o repeat(<<>>, 5 - score)
        group(severity, heading) ==
            LET has(i) == i.severity = severity
                found == SelectSeq(issues, has)
            IN  IF Len(found) > 0
                THEN << <<"#", "#", "#", "#", " ">> \o heading \o <<" ", "(">>
                           \o NumberToString(Len(found)) \o <<")">> >>
                        \o [k \in 1..Len(found) |-> formatIssueLine(found[k])]
                        \o << <<>> >>
                ELSE <<>>
        parts ==
            << <<"#", "#", " ", "C", "o", "d", "e", " ", "S", "e", "n", "t", "i",
                  "n", "e", "l", " ", "R", "e", "v", "i", "e", "w">>,
               <<>>,
               <<"*", "*", "R", "e", "v", "i", "e", "w", " ", "E", "f", "f", "o",
                     "r", "t", ":", "*", "*",
                     " ">> \o getStars(response.effortScore) \o <<" ", "(">>
                   \o NumberToString(response.effortScore) \o <<"/", "5", ")">>,
               <<>>,
               <<"#", "#", "#", " ", "S", "u", "m", "m", "a", "r", "y">>,
               response.summary,
               <<>> >>
            \o (IF Len(issues) > 0
                THEN << <<"#", "#", "#", " ", "I", "s", "s", "u", "e", "s", " ",
                      "F", "o", "u", "n", "d">>, <<>> >>
                        \o group("critical", <<"C", "r", "i", "t", "i", "c", "a",
                              "l">>)
                        \o group("warning", <<"W", "a", "r", "n", "i", "n", "g",
                              "s">>)
                        \o group("suggestion", <<"S", "u", "g", "g", "e", "s", "t",
                              "i", "o", "n", "s">>)
                        \o group("nitpick", <<"N", "i", "t", "p", "i", "c", "k",
                              "s">>)
                ELSE << <<"N", "o", " ", "i", "s", "s", "u", "e", "s", " ", "f",
                      "o", "u", "n", "d", ".", " ", "G", "r", "e", "a", "t", " ",
                      "j", "o", "b", "!">>, <<>> >>)
            \o << <<"-", "-", "-">>,
                  <<"<", "s", "u", "b", ">", "R", "e", "v", "i", "e", "w", "e",
                        "d", " ", "b", "y", " ", "[", "C", "o", "d", "e", " ", "S",
                        "e", "n", "t", "i", "n", "e", "l", "]", "(", "h", "t", "t",
                        "p", "s", ":", "/", "/", "g", "i", "t", "h", "u", "b", ".",
                        "c", "o", "m", "/", "s", "a", "h", "1", "l", "/", "c", "o",
                        "d", "e", "-", "s", "e", "n", "t", "i", "n", "e", "l", ")",
                        " ", "u", "s", "i", "n", "g", " ">>
                      \o llmProviderName \o <<"<", "/", "s", "u", "b", ">">> >>
    IN  Join(parts, NL)

\* Lines 122-146.
formatInlineComment(issue) ==
    Join(<< <<getSeverityIcon(issue.severity)>> \o <<" ", "*",
          "*">> \o issue.title \o <<"*", "*">>,
            <<>>,
            issue.description >>
         \o (IF HasContent(issue.suggestion)
             THEN << <<>>, <<"*", "*", "S", "u", "g", "g", "e", "s", "t", "i", "o",
                   "n", ":", "*", "*", " ">> \o issue.suggestion[1] >>
             ELSE <<>>)
         \o (IF HasContent(issue.codeBlock)
             THEN << <<>>,
                     <<"U+0060", "U+0060", "U+0060">>,
                     issue.codeBlock[1],
                     <<"U+0060", "U+0060", "U+0060">> >>
             ELSE <<>>)
         \o << <<>>,
               <<"<", "s", "u", "b", ">", "C", "a", "t", "e", "g", "o", "r", "y",
                     ":", " ">> \o Word(issue.category) \o <<" ", "|", " ", "S",
                     "e", "v", "e", "r", "i", "t", "y", ":", " ">>
                   \o Word(issue.severity) \o <<"<", "/", "s", "u", "b", ">">> >>,
         NL)

\* Mutant: the list is not cut to maxComments.
formatInlineCommentsUncapped(issues, maxComments) ==
    LET hasLine(i) == i.line # <<>>
        issuesWithLines == SelectSeq(issues, hasLine)
    IN  [k \in 1..Len(issuesWithLines) |->
            [path |-> issuesWithLines[k].file,
             line |-> issuesWithLines[k].line[1],
             body |-> formatInlineComment(issuesWithLines[k]),
             side |-> "RIGHT"]]

\* Lines 103-120.
formatInlineComments(issues, maxComments) ==
    LET hasLine(i) == i.line # <<>>
        issuesWithLines == Slice(SelectSeq(issues, hasLine), maxComments)
    IN  [k \in 1..Len(issuesWithLines) |->
            [path |-> issuesWithLines[k].file,
             line |-> issuesWithLines[k].line[1],
             body |-> formatInlineComment(issuesWithLines[k]),
             side |-> "RIGHT"]]

\* Mutant: every security issue gets the label, whatever its severity.
generateLabelsAnySeverity(response, issues, labelConfig) ==
    IF ~labelConfig.enabled THEN <<>>
    ELSE (IF \E k \in 1..Len(issues) : issues[k].category = "security"
          THEN <<labelConfig.security_issue>>
          ELSE <<>>)
            \o <<labelConfig.effort_prefix \o NumberToString(response.effortScore)>>

\* Lines 148-169.
generateLabels(response, issues, labelConfig) ==
    IF ~labelConfig.enabled THEN <<>>
    ELSE LET hasSecurityIssue ==
                 \E k \in 1..Len(issues) :
                    /\ issues[k].category = "security"
                    /\ issues[k].severity = "critical" \/ issues[k].severity = "warning"
         IN  (IF hasSecurityIssue THEN <<labelConfig.security_issue>> ELSE <<>>)
                \o <<labelConfig.effort_prefix
                        \o NumberToString(response.effortScore)>>

----------------------------------------------------------------------------

(* Pull requests, configurations, repositories and model responses the
   analyzer is run on *)

\* The paths of the pull requests and of the working tree.
Path ==
    [a |-> <<"s", "r", "c", "/", "a", ".", "t", "s">>,
     aTest |-> <<"s", "r", "c", "/", "a", ".", "t", "e", "s", "t", ".", "t", "s">>,
     b |-> <<"s", "r", "c", "/", "b", ".", "t", "s">>,
     c |-> <<"s", "r", "c", "/", "c", ".", "t", "s">>,
     r |-> <<"d", "o", "c", "s", "/", "r", ".", "m", "d">>,
     s |-> <<"d", "o", "c", "s", "/", "s", ".", "m", "d">>,
     d |-> <<"s", "r", "c", "/", "d", ".", "t", "s">>,
     t |-> <<"d", "o", "c", "s", "/", "t", ".", "m", "d">>,
     u |-> <<"l", "i", "b", "/", "u", ".", "j", "s">>,
     v |-> <<"l", "i", "b", "/", "v", ".", "j", "s">>,
     w |-> <<"l", "i", "b", "/", "w", ".", "j", "s">>]

\* The files a pull request lists: a modified and an added file with a
\* patch, a deleted file, and a file listed without a patch.
PrFileRecords ==
    { [filename |-> Path.a, status |-> "modified", patch |-> <<Patch_10>>],
      [filename |-> Path.aTest, status |-> "added", patch |-> <<Patch_5_6>>],
      [filename |-> Path.b, status |-> "deleted", patch |-> <<Patch_5_6>>],
      [filename |-> Path.r, status |-> "modified", patch |-> <<>>] }

PrFileLists ==
    {<<>>} \cup { fs \in SeqsUpTo(PrFileRecords, MaxPrFiles) : Injective(fs) }

PullRequests == [author : {<<"b", "o", "t">>}, files : PrFileLists]

\* config.ignore and config.review: min_severity is a Severity,
\* skip_if_effort_below a number from 1 to 5 (part_005:49-53).
SentinelConfigs ==
    [ignore :
        [paths :
            { <<>>,
              << <<"*", "*", "/", "*", ".", "t", "e", "s", "t", ".", "t", "s">> >>,
              << <<"d", "o", "c", "s", "/", "*", "*">>,
                 <<"*", "*", "/", "*", ".", "t", "e", "s", "t", ".", "t", "s">> >> },
         authors : {<<>>, << <<"c", "i">>, <<"b", "o", "t">> >>}],
     review : { [min_severity |-> "warning", skip_if_effort_below |-> 3] }]

\* The content of a file that can be read; docs/s.md has one line more
\* (MaxContextLines + 1 empty lines) than truncateForContext lets through.
ContentAt(path) ==
    IF path = Path.s THEN [i \in 1..MaxContextLines |-> NL] ELSE <<"x">>

\* What getFileContent returns for a changed file: null, the empty string
\* or the content.
FetchResults(path) == {<<>>, << <<>> >>, <<ContentAt(path)>>}

\* What getFileContent returns for each path of the working tree while one
\* file's siblings are collected: null or the content.
ContentMaps(paths) == [paths -> {"null", "content"}]

ContentOf(map) ==
    [p \in DOMAIN map |-> IF map[p] = "content" THEN <<ContentAt(p)>> ELSE <<>>]

\* The working directories the analyzer runs in: an empty one, and two
\* checkouts of the head of the pull request in different listing orders
\* (the deleted src/b.ts is in neither).
Trees ==
    { <<>>,
      <<Path.aTest, Path.a, Path.c, Path.r, Path.s>>,
      <<Path.c, Path.s, Path.a, Path.r>> }

\* Pull requests of three files with the working directory they are
\* reviewed in: three files of three directories, each with two more files
\* listed before it, and two files of one directory and a third of another.
RelatedInputs ==
    { [files |-> << [filename |-> Path.a, status |-> "modified", patch |-> <<Patch_10>>],
                    [filename |-> Path.r, status |-> "modified", patch |-> <<>>],
                    [filename |-> Path.u, status |-> "added", patch |-> <<Patch_5_6>>] >>,
       tree |-> <<Path.c, Path.d, Path.a, Path.s, Path.t, Path.r, Path.v, Path.w,
                  Path.u>>],
      [files |-> << [filename |-> Path.a, status |-> "modified", patch |-> <<Patch_10>>],
                    [filename |-> Path.aTest, status |-> "added", patch |-> <<Patch_5_6>>],
                    [filename |-> Path.u, status |-> "added", patch |-> <<Patch_5_6>>] >>,
       tree |-> <<Path.c, Path.aTest, Path.d, Path.a, Path.v, Path.u>>] }

\* Parsed responses of the model.  An issue is null, a number, or an object
\* whose required fields are there or not, strings or not; its severity is
\* any string.
RawIssue(severity, title) ==
    JsonObject([severity |-> JsonString(severity), category |-> JsonString("bugs"),
                file |-> JsonString(Path.a), title |-> JsonString(title),
                description |-> JsonString(<<"D">>)])

RawIssues ==
    { JsonNull,
      JsonNumber(10),
      RawIssue("critical", "t1"),
      RawIssue("nitpick", "t2"),
      RawIssue("blocker", "t1"),
      JsonObject([category |-> JsonString("bugs"), file |-> JsonString(Path.a),
                  title |-> JsonString("t1"), description |-> JsonString(<<"D">>)]),
      JsonObject([severity |-> JsonString("critical"),
            category |-> JsonString("bugs"),
                  file |-> JsonNumber(10), title |-> JsonString("t2"),
                  description |-> JsonString(<<"D">>)]) }

RawSummaries == {Undefined, JsonString(<<>>), JsonString(<<"o", "k">>),
      JsonNumber(10)}

\* -1, 0, 0.4, 2.5, 3, 7, a string and nothing.
RawEffortScores ==
    {Undefined, JsonString(<<"4">>)}
        \cup {JsonNumber(n) : n \in {0 - 10, 0, 4, 25, 30, 70}}

RawResponses ==
    {JsonNull}
        \cup { JsonObject([summary |-> s, effortScore |-> e, issues |-> i]) :
                  s \in RawSummaries, e \in RawEffortScores,
                  i \in {Undefined, JsonString(<<"x">>)}
                           \cup {JsonArray(xs) : xs \in {<<>>} \cup
                                    SeqsUpTo(RawIssues, MaxRawIssues)} }

\* Issues as the model reports them; an absent optional field is <<>>.
Issue(severity, category, line) ==
    [severity |-> severity, category |-> category, file |-> Path.a, line |-> line,
     title |-> <<"T">>, description |-> <<"D">>, suggestion |-> <<>>,
           codeBlock |-> <<>>]

\* effortScore is 1 to 5 (part_001:48).
ModelResponses ==
    [summary : {<<"o", "k">>},
     effortScore : {1, 3, 5},
     issues :
        { <<>>,
          <<Issue("nitpick", "bugs", <<>>), Issue("critical", "security", <<10>>),
            Issue("blocker", "bugs", <<10>>)>> }]

\* The issues the formatter is handed: with and without a line, line 0
\* included, of every severity, of the category security and of another
\* one, with and without a suggestion and a code block.
FormatIssueRecords ==
    { Issue("critical", "security", <<7>>),
      Issue("warning", "security", <<>>),
      Issue("suggestion", "security", <<0>>),
      Issue("critical", "bugs", <<>>),
      [Issue("warning", "bugs", <<9>>) EXCEPT !.suggestion = <<<<"f", "i", "x">>>>,
                                              !.codeBlock = <<<<"x", " ", "=", " ",
                                                    "1", ";">>>>],
      Issue("nitpick", "bugs", <<3>>) }

\* The arguments of the constructor: config.output with summary and
\* inline_comments at their default (part_005:37-38), max_inline_comments
\* from 1 to 50 (part_005:39) and the labels of part_005:29-34, and the name
\* of the provider (ollama.ts:8).
FormatterConfigs ==
    [output :
        [summary : {TRUE},
         inline_comments : {TRUE},
         max_inline_comments : {1, 2},
         labels : [enabled : BOOLEAN,
                   security_issue : {<<"s", "e", "c", "u", "r", "i", "t", "y">>},
                   effort_prefix : {<<"e", "f", "f", "o", "r", "t", ":">>}]],
     llmProviderName : {<<"o", "l", "l", "a", "m", "a">>}]

----------------------------------------------------------------------------

(* parsePatch as a state machine: one action per loop iteration *)

ParseIdle ==
    /\ patch = <<>> /\ pc = "off" /\ lines = <<>> /\ lineNo = 0
    /\ oldLineNum = 0 /\ newLineNum = 0 /\ currentHunk = <<>>
    /\ result = EmptyDiff

ResolveIdle ==
    /\ rpc = "off" /\ rDiff = EmptyDiff /\ rTarget = 0 /\ rMaxDistance = 0
    /\ rValidLine = <<>> /\ rFrom = <<>>

AdapterIdle ==
    /\ apc = "off" /\ prFiles = <<>> /\ fileDiffs = NoDiffs /\ inComments = <<>>
    /\ reviews = <<>> /\ postOutcome = "none" /\ skippedCount = 0

FilterIdle ==
    /\ fpc = "off" /\ minSeverity = "suggestion" /\ fIssues = <<>>
    /\ filteredIssues = <<>>

AnalyzeIdle ==
    /\ anPc = "off" /\ anPr = [author |-> <<>>, files |-> <<>>]
    /\ anConfig = [ignore |-> [paths |-> <<>>, authors |-> <<>>],
                   review |-> [min_severity |-> "suggestion",
                               skip_if_effort_below |-> 1]]
    /\ relevantFiles = <<>> /\ fileIndex = 0 /\ changedFiles = <<>>
    /\ relatedFiles = <<>> /\ seenPaths = {} /\ diff = <<>>
    /\ calls = <<>> /\ analysis = <<>> /\ tree = <<>>

FormatIdle ==
    /\ fmtPc = "off"
    /\ fmtConfig = [output |-> [summary |-> TRUE, inline_comments |-> TRUE,
                                max_inline_comments |-> 15,
                                labels |-> [enabled |-> TRUE,
                                            security_issue |-> <<>>,
                                            effort_prefix |-> <<>>]],
                    llmProviderName |-> <<>>]
    /\ fmtResponse = emptyResponse /\ fmtIssues = <<>> /\ output = <<>>

ValidateIdle ==
    /\ valPc = "off" /\ valResponse = [type |-> "null"] /\ valResult = <<>>

RunIdle ==
    /\ runPc = "off" /\ dryRun = FALSE /\ actionOutputs = <<>> /\ failures = 0
    /\ published = <<>>

InitParse ==
    /\ ValidateIdle
    /\ RunIdle
    /\ patch \in Patches
    /\ pc = "start"
    /\ lines = <<>>
    /\ lineNo = 0
    /\ oldLineNum = 0
    /\ newLineNum = 0
    /\ currentHunk = <<>>
    /\ result = EmptyDiff
    /\ ResolveIdle
    /\ AdapterIdle
    /\ FilterIdle
    /\ AnalyzeIdle
    /\ FormatIdle

\* Lines 43-56: the early return for a missing patch, else split.
ParseEnter ==
    /\ pc = "start"
    /\ IF NoPatch(patch)
       THEN /\ pc' = "done"
            /\ UNCHANGED <<lines, lineNo>>
       ELSE /\ pc' = "loop"
            /\ lines' = Split(patch[1], NL)
            /\ lineNo' = 1
    /\ UNCHANGED <<patch, oldLineNum, newLineNum, currentHunk, result>>
    /\ UNCHANGED <<resolveVars, adapterVars, filterVars, analyzeVars, formatVars, validateVars, runVars>>

\* Lines 58-115: one iteration.
ParseLine ==
    /\ pc = "loop"
    /\ lineNo <= Len(lines)
    /\ LET s == LoopBody([result |-> result, currentHunk |-> currentHunk,
                          oldLineNum |-> oldLineNum, newLineNum |-> newLineNum,
                          threw |-> FALSE],
                         lines[lineNo])
       IN  /\ result' = s.result
           /\ currentHunk' = s.currentHunk
           /\ oldLineNum' = s.oldLineNum
           /\ newLineNum' = s.newLineNum
           /\ pc' = IF s.threw THEN "threw" ELSE pc
    /\ lineNo' = lineNo + 1
    /\ UNCHANGED <<patch, lines>>
    /\ UNCHANGED <<resolveVars, adapterVars, filterVars, analyzeVars, formatVars, validateVars, runVars>>

\* Lines 117-122.
ParseReturn ==
    /\ pc = "loop"
    /\ lineNo > Len(lines)
    /\ result' = SaveLast([result |-> result, currentHunk |-> currentHunk,
                           oldLineNum |-> oldLineNum, newLineNum |-> newLineNum,
                           threw |-> FALSE])
    /\ pc' = "done"
    /\ UNCHANGED <<patch, lines, lineNo, oldLineNum, newLineNum, currentHunk>>
    /\ UNCHANGED <<resolveVars, adapterVars, filterVars, analyzeVars, formatVars, validateVars, runVars>>

NextParse == ParseEnter \/ ParseLine \/ ParseReturn

SpecParse == InitParse /\ [][NextParse]_vars

----------------------------------------------------------------------------
(* Properties of parsePatch, checked under SpecParse *)

Header_1_1 == HunkHeader(<<"1">>, <<",", "3">>, <<"1">>, <<",", "5">>)
Header_5_5 == HunkHeader(<<"5">>, <<",", "2">>, <<"5">>, <<",", "2">>)
Header_3_10 == HunkHeader(<<"3">>, <<>>, <<"1", "0">>, <<>>)

\* <<oldStart, newStart>> a header line of the model declares, read off its text.
DeclaredStart(h) ==
    CASE h = Header_1_1 -> <<1, 1>>
      [] h = Header_5_5 -> <<5, 5>>
      [] h = Header_3_10 -> <<3, 10>>

IsPlusLine(l) == At(l, 1) = "+" /\ ~(At(l, 2) = "+" /\ At(l, 3) = "+")
IsMinusLine(l) == At(l, 1) = "-" /\ ~(At(l, 2) = "-" /\ At(l, 3) = "-")
IsContextLine(l) == l = <<>> \/ At(l, 1) = " "

NoHeaderIn(ls) == \A i \in 1..Len(ls) : ls[i] \notin HeaderLines

\* All DiffLines of the finished index, as <<hunk, position>> pairs.
DiffLinePositions(d) ==
    { hk \in (1..Len(d.hunks)) \X (1..MaxLines + 1) :
        hk[2] <= Len(d.hunks[hk[1]].lines) }

\* C4: parsePatch never fails (no iteration throws, and the scan never
\* reads past the last line), and for an undefined patch, an empty patch and
\* any patch text without a hunk header the returned index has no valid new
\* line, no valid old line and no hunk.
C4_EmptyIndex ==
    /\ pc # "threw"
    /\ pc = "loop" => lineNo \in 1..(Len(lines) + 1)
    /\ (pc = "done" /\ (patch = <<>> \/ patch = << <<>> >> \/ NoHeaderIn(lines)))
          => /\ result.validNewLines = {}
             /\ result.validOldLines = {}
             /\ result.hunks = <<>>

\* A finished parse of a text with body lines and no header.
C4_Witness ==
    /\ pc = "done" /\ Len(lines) = MaxLines /\ NoHeaderIn(lines)
    /\ \E i \in 1..Len(lines) : lines[i] = <<"+", "a">>
    /\ \E i \in 1..Len(lines) : lines[i] = <<" ", "a">>
    /\ result = EmptyDiff

\* C5: a patch of one hunk starting at old line 1 and new line 1 whose body
\* is N context lines yields validNewLines = validOldLines = 1..N.
C5_ContextOnly ==
    (/\ pc = "done" /\ Len(lines) >= 1 /\ lines[1] = Header_1_1
     /\ \A i \in 2..Len(lines) : IsContextLine(lines[i]))
        => /\ result.validNewLines = 1..(Len(lines) - 1)
           /\ result.validOldLines = 1..(Len(lines) - 1)

C5_Witness ==
    /\ pc = "done" /\ Len(lines) = MaxLines /\ lines[1] = Header_1_1
    /\ \A i \in 2..Len(lines) : lines[i] = <<" ", "a">>
    /\ result.validNewLines = 1..(MaxLines - 1)

\* C6 (as claimed): in a patch of one hunk whose body lines all start with
\* '+', validOldLines is empty and the new-file number of every body line
\* (newStart + its position in the body) is in validNewLines and is the
\* newLine of exactly one recorded DiffLine.
C6_OnlyAdditions ==
    (/\ pc = "done" /\ Len(lines) >= 2 /\ lines[1] \in HeaderLines
     /\ \A i \in 2..Len(lines) : At(lines[i], 1) = "+")
        => /\ result.validOldLines = {}
           /\ \A i \in 2..Len(lines) :
                LET n == DeclaredStart(lines[1])[2] + (i - 2) IN
                /\ n \in result.validNewLines
                /\ Cardinality({ hk \in DiffLinePositions(result) :
                       result.hunks[hk[1]].lines[hk[2]].newLine = n }) = 1

\* C7: one iteration of the scan.  A header sets the counters to its
\* (oldStart, newStart); inside a hunk a '+' line (not '+++') records and
\* marks the new counter and advances it alone, a '-' line (not '---') does
\* the same on the old side, a space-prefixed or empty line on both sides;
\* every other line, and every line before the first header, changes
\* neither the counters nor the sets nor the recorded lines.
C7_Iteration ==
    (pc = "loop" /\ lineNo <= Len(lines) /\ lineNo' = lineNo + 1) =>
    LET line == lines[lineNo]
        recorded == currentHunk[1].lines
        recorded2 == currentHunk'[1].lines
        sameNew == result'.validNewLines = result.validNewLines
        sameOld == result'.validOldLines = result.validOldLines
    IN
    IF line \in HeaderLines THEN
        /\ oldLineNum' = DeclaredStart(line)[1]
        /\ newLineNum' = DeclaredStart(line)[2]
        /\ sameNew /\ sameOld
        /\ recorded2 = <<>>
    ELSE IF currentHunk = <<>> THEN
        UNCHANGED <<oldLineNum, newLineNum, currentHunk, result>>
    ELSE IF IsPlusLine(line) THEN
        /\ recorded2 = Append(recorded,
              [newLine |-> newLineNum, oldLine |-> <<>>, type |-> "add"])
        /\ result'.validNewLines = result.validNewLines \cup {newLineNum}
        /\ sameOld
        /\ newLineNum' = newLineNum + 1 /\ oldLineNum' = oldLineNum
    ELSE IF IsMinusLine(line) THEN
        /\ Len(recorded2) = Len(recorded) + 1
        /\ recorded2[Len(recorded2)].oldLine = <<oldLineNum>>
        /\ recorded2[Len(recorded2)].type = "remove"
        /\ result'.validOldLines = result.validOldLines \cup {oldLineNum}
        /\ sameNew
        /\ oldLineNum' = oldLineNum + 1 /\ newLineNum' = newLineNum
    ELSE IF IsContextLine(line) THEN
        /\ recorded2 = Append(recorded,
              [newLine |-> newLineNum, oldLine |-> <<oldLineNum>>, type |-> "context"])
        /\ result'.validNewLines = result.validNewLines \cup {newLineNum}
        /\ result'.validOldLines = result.validOldLines \cup {oldLineNum}
        /\ oldLineNum' = oldLineNum + 1 /\ newLineNum' = newLineNum + 1
    ELSE
        UNCHANGED <<oldLineNum, newLineNum, currentHunk, result>>

C7_ScanStep == [][C7_Iteration]_vars

\* The scan has read a header, a removal and an ignored '+++' line.
C7_Witness ==
    /\ pc = "loop" /\ lineNo = 4 /\ currentHunk # <<>>
    /\ lines[1] = Header_3_10
    /\ lines[2] = <<"-", "a">>
    /\ lines[3] = <<"+", "+", "+", "a">>
    /\ oldLineNum = 4 /\ newLineNum = 10
    /\ result.validOldLines = {3} /\ result.validNewLines = {}

----------------------------------------------------------------------------
(* findNearestValidLine: calls on a parsed diff *)

InitResolve ==
    /\ ValidateIdle
    /\ RunIdle
    /\ ParseIdle
    /\ AdapterIdle
    /\ FilterIdle
    /\ AnalyzeIdle
    /\ FormatIdle
    /\ rpc = "idle"
    /\ rDiff \in ResolverDiffs
    /\ rTarget = 0
    /\ rMaxDistance = 0
    /\ rValidLine = <<>>
    /\ rFrom = <<>>

\* findNearestValidLine(t, rDiff, d)
Resolve(t, d) ==
    /\ rpc = "idle"
    /\ rpc' = "resolved"
    /\ rTarget' = t
    /\ rMaxDistance' = d
    /\ rValidLine' = findNearestValidLine(t, rDiff, d)
    /\ rFrom' = <<>>
    /\ UNCHANGED rDiff
    /\ UNCHANGED <<parseVars, adapterVars, filterVars, analyzeVars, formatVars, validateVars, runVars>>

\* findNearestValidLine on the line the previous call returned.
ResolveAgain ==
    /\ rpc = "resolved"
    /\ rValidLine # <<>>
    /\ rpc' = "again"
    /\ rTarget' = rValidLine[1]
    /\ rValidLine' = findNearestValidLine(rValidLine[1], rDiff, rMaxDistance)
    /\ rFrom' = <<rTarget>>
    /\ UNCHANGED <<rDiff, rMaxDistance>>
    /\ UNCHANGED <<parseVars, adapterVars, filterVars, analyzeVars, formatVars, validateVars, runVars>>

NextResolve ==
    \/ \E t \in 0..MaxTarget, d \in 0..MaxDist : Resolve(t, d)
    \/ ResolveAgain

SpecResolve == InitResolve /\ [][NextResolve]_vars

----------------------------------------------------------------------------
(* Properties of findNearestValidLine, checked under SpecResolve *)

Distance(a, b) == IF a >= b THEN a - b ELSE b - a

\* The valid new lines within rMaxDistance of rTarget.
WithinReach == { l \in rDiff.validNewLines : Distance(l, rTarget) <= rMaxDistance }

\* C1: a call returns undefined or a line at most maxDistance from the
\* target; on an index of new lines 5-6, (4, 3) gives 5 and (8, 1) undefined.
C1_WithinDistance ==
    rpc \in {"resolved", "again"} =>
        /\ rValidLine = <<>> \/ Distance(rValidLine[1], rTarget) <= rMaxDistance
        /\ (rpc = "resolved" /\ rDiff.validNewLines = {5, 6}) =>
              /\ (rTarget = 4 /\ rMaxDistance = 3) => rValidLine = <<5>>
              /\ (rTarget = 8 /\ rMaxDistance = 1) => rValidLine = <<>>

C1_Witness ==
    /\ rpc = "resolved" /\ rDiff.validNewLines = {5, 6}
    /\ rTarget = 4 /\ rMaxDistance = 3 /\ rValidLine = <<5>>

\* C2: when a valid new line lies within maxDistance the call returns a valid
\* new line at minimal distance, the one above when the lines above and below
\* at that distance are both valid; it returns undefined only when no valid
\* new line lies within maxDistance.
C2_NearestAbovePreferred ==
    rpc \in {"resolved", "again"} =>
        /\ WithinReach # {} =>
              /\ rValidLine # <<>>
              /\ rValidLine[1] \in rDiff.validNewLines
              /\ \A l \in WithinReach :
                     Distance(rValidLine[1], rTarget) <= Distance(l, rTarget)
              /\ LET k == Distance(rValidLine[1], rTarget) IN
                 ({rTarget - k, rTarget + k} \subseteq rDiff.validNewLines)
                     => rValidLine[1] = rTarget - k
        /\ rValidLine = <<>> => WithinReach = {}

\* Lines 1 and 5 valid, 2-4 not: target 3 resolves to the line above.
C2_Witness ==
    /\ rpc = "resolved" /\ rTarget = 3 /\ rMaxDistance >= 2
    /\ {1, 5} \subseteq rDiff.validNewLines
    /\ rDiff.validNewLines \cap {2, 3, 4} = {}
    /\ rValidLine = <<1>>

\* C3: a valid target is returned unchanged for every maxDistance, and
\* resolving a returned line again returns that line.
C3_Idempotent ==
    /\ (rpc \in {"resolved", "again"} /\ rTarget \in rDiff.validNewLines)
          => rValidLine = <<rTarget>>
    /\ rpc = "again" => rValidLine = <<rTarget>>

\* A shifted resolution (4 to 5 on lines 5-6) resolved again.
C3_Witness ==
    /\ rpc = "again" /\ rDiff.validNewLines = {5, 6}
    /\ rFrom = <<4>> /\ rTarget = 5 /\ rValidLine = <<5>>

----------------------------------------------------------------------------
(* GitHubAdapter: getPullRequest, then postInlineComments *)

InitAdapter ==
    /\ ValidateIdle
    /\ RunIdle
    /\ ParseIdle
    /\ ResolveIdle
    /\ FilterIdle
    /\ AnalyzeIdle
    /\ FormatIdle
    /\ apc = "new"
    /\ prFiles = <<>>
    /\ fileDiffs = NoDiffs
    /\ inComments = <<>>
    /\ reviews = <<>>
    /\ postOutcome = "none"
    /\ skippedCount = 0

\* getPullRequest, lines 25-69, when the platform lists `files`.
GetPullRequest(files) ==
    /\ apc = "new"
    /\ apc' = "ready"
    /\ prFiles' = files
    /\ fileDiffs' = StoreDiffs(files, fileDiffs)
    /\ UNCHANGED <<inComments, reviews, postOutcome, skippedCount>>
    /\ UNCHANGED <<parseVars, resolveVars, filterVars, analyzeVars, formatVars, validateVars, runVars>>

\* getPullRequest throws: no pull_request in the event, or a request fails.
GetPullRequestThrows ==
    /\ apc = "new"
    /\ apc' = "failed"
    /\ UNCHANGED <<prFiles, fileDiffs, inComments, reviews, postOutcome, skippedCount>>
    /\ UNCHANGED <<parseVars, resolveVars, filterVars, analyzeVars, formatVars, validateVars, runVars>>

\* postInlineComments(comments), lines 156-233; getOk and createOk tell
\* whether pulls.get and pulls.createReview succeed.
PostInlineComments(comments, getOk, createOk) ==
    /\ apc = "ready"
    /\ apc' = "posted"
    /\ inComments' = comments
    /\ LET validComments == ValidComments(comments, fileDiffs) IN
       IF comments = <<>> THEN
           /\ postOutcome' = "noComments"
           /\ UNCHANGED <<reviews, skippedCount>>
       ELSE IF ~getOk THEN
           /\ postOutcome' = "threw"
           /\ UNCHANGED <<reviews, skippedCount>>
       ELSE IF validComments = <<>> THEN
           /\ postOutcome' = "allSkipped"
           /\ skippedCount' = Len(comments)
           /\ UNCHANGED reviews
       ELSE
           /\ reviews' = Append(reviews, validComments)
           /\ skippedCount' = Len(comments) - Len(validComments)
           /\ postOutcome' = IF createOk THEN "posted" ELSE "threw"
    /\ UNCHANGED <<prFiles, fileDiffs>>
    /\ UNCHANGED <<parseVars, resolveVars, filterVars, analyzeVars, formatVars, validateVars, runVars>>

NextAdapter ==
    \/ \E files \in FileLists : GetPullRequest(files)
    \/ GetPullRequestThrows
    \/ \E comments \in CommentLists, getOk \in BOOLEAN, createOk \in BOOLEAN :
          PostInlineComments(comments, getOk, createOk)

SpecAdapter == InitAdapter /\ [][NextAdapter]_vars

----------------------------------------------------------------------------
(* Properties of postInlineComments, checked under SpecAdapter *)

\* The patch the platform listed for a path, <<>> when it listed none.
ListedPatch(path) ==
    IF \E i \in 1..Len(prFiles) : prFiles[i].filename = path
    THEN (CHOOSE f \in {prFiles[i] : i \in 1..Len(prFiles)} : f.filename = path).patch
    ELSE <<>>

\* The comment's path has a stored diff with a valid new line within 3 of
\* the comment's line.
Resolvable(c) ==
    /\ ListedPatch(c.path) # <<>> /\ ListedPatch(c.path) # << <<>> >>
    /\ \E l \in parsePatch(ListedPatch(c.path)).validNewLines :
           Distance(l, c.line) <= 3

KeptComments == SelectSeq(inComments, Resolvable)

\* The comments arrays of the createReview requests, flattened.
SentComments == Concat(reviews)

\* The note expected in front of a comment first asked for on `line`.
ExpectedNote(line) ==
    <<"*", "(", "N", "o", "t", "e", ":", " ", "O", "r", "i", "g", "i", "n", "a", "l",
      "l", "y", " ", "f", "o", "r", " ", "l", "i", "n", "e", " ">>
        \o << CASE line = 1 -> "1" [] line = 4 -> "4" [] line = 5 -> "5" >>
        \o <<")", "*", "\n", "\n">>

\* C8: every comment sent has a line in validNewLines of the parsed diff of
\* its own path; the comments sent are, in order, the comments whose path has
\* a stored diff with a valid line within 3, every other comment is skipped;
\* and when every comment is skipped no review is created.
C8_OnlyValidLinesSent ==
    apc = "posted" =>
        /\ \A i \in 1..Len(SentComments) :
              /\ SentComments[i].path \in DOMAIN fileDiffs
              /\ SentComments[i].line
                    \in parsePatch(ListedPatch(SentComments[i].path)).validNewLines
        /\ Len(reviews) <= 1
        /\ postOutcome \in {"posted", "allSkipped"} =>
              /\ Len(SentComments) = Len(KeptComments)
              /\ \A i \in 1..Len(SentComments) :
                    /\ SentComments[i].path = KeptComments[i].path
                    /\ SentComments[i].side = KeptComments[i].side
                    /\ Distance(SentComments[i].line, KeptComments[i].line) <= 3
              /\ skippedCount = Len(inComments) - Len(KeptComments)
        /\ (postOutcome \in {"noComments", "allSkipped"} \/ KeptComments = <<>>)
              => reviews = <<>>

\* Two comments, the first on a path without a stored diff or on a line too
\* far from the diff, the second sent on a shifted line.
C8_Witness ==
    /\ apc = "posted" /\ postOutcome = "posted"
    /\ Len(inComments) = 2 /\ skippedCount = 1
    /\ inComments[1].line = 1
    /\ inComments[1].path = inComments[2].path
    /\ Len(reviews) = 1 /\ Len(reviews[1]) = 1
    /\ reviews[1][1].line = 5 /\ inComments[2].line = 4

\* C9: a posted comment's body is the requested body behind a note naming
\* the requested line exactly when the posted line differs from the requested
\* one; otherwise it is the requested body, unchanged.
C9_NoteIffShifted ==
    (apc = "posted" /\ postOutcome = "posted") =>
        /\ Len(SentComments) = Len(KeptComments)
        /\ \A i \in 1..Len(SentComments) :
              LET sent == SentComments[i]
                  asked == KeptComments[i]
              IN  /\ startsWith(sent.body, ExpectedNote(asked.line))
                        <=> sent.line # asked.line
                  /\ sent.line # asked.line
                        => sent.body = ExpectedNote(asked.line) \o asked.body
                  /\ sent.line = asked.line => sent.body = asked.body

\* One review carrying a shifted comment (with its note) and an exact one.
C9_Witness ==
    /\ apc = "posted" /\ postOutcome = "posted"
    /\ Len(inComments) = 2 /\ Len(reviews) = 1 /\ Len(reviews[1]) = 2
    /\ inComments[1].line = 4 /\ reviews[1][1].line = 5
    /\ reviews[1][1].body = ExpectedNote(4) \o inComments[1].body
    /\ inComments[2].line = 5 /\ reviews[1][2].line = 5
    /\ reviews[1][2].body = inComments[2].body

----------------------------------------------------------------------------
(* filterBySeverity: calls on a list of issues *)

InitFilter ==
    /\ ValidateIdle
    /\ RunIdle
    /\ ParseIdle
    /\ ResolveIdle
    /\ AdapterIdle
    /\ AnalyzeIdle
    /\ FormatIdle
    /\ fpc = "idle"
    /\ minSeverity \in Severities
    /\ fIssues = <<>>
    /\ filteredIssues = <<>>

\* this.filterBySeverity(issues), lines 257-265.
FilterBySeverity(issues) ==
    /\ fpc = "idle"
    /\ fpc' = "filtered"
    /\ fIssues' = issues
    /\ filteredIssues' = filterBySeverity(issues, minSeverity)
    /\ UNCHANGED minSeverity
    /\ UNCHANGED <<parseVars, resolveVars, adapterVars, analyzeVars, formatVars, validateVars, runVars>>

NextFilter == \E issues \in IssueLists : FilterBySeverity(issues)

SpecFilter == InitFilter /\ [][NextFilter]_vars

----------------------------------------------------------------------------
(* Properties of filterBySeverity, checked under SpecFilter *)

\* The rank of a severity in the fixed order.
Rank(severity) ==
    CASE severity = "critical" -> 0
      [] severity = "warning" -> 1
      [] severity = "suggestion" -> 2
      [] severity = "nitpick" -> 3

HasRank(issue) == issue.severity \in Severities

RankedAndAllowed(issue) ==
    HasRank(issue) /\ Rank(issue.severity) <= Rank(minSeverity)

CriticalOrWarning(issue) == issue.severity \in {"critical", "warning"}

\* C10: of the issues whose severity is one of the fixed order, the filter
\* keeps exactly those whose rank is <= the rank of min_severity, in input
\* order; with min_severity = warning and a list of such issues the result is
\* the critical and warning issues, in input order.
C10_SeverityFilter ==
    fpc = "filtered" =>
        /\ SelectSeq(filteredIssues, HasRank) = SelectSeq(fIssues, RankedAndAllowed)
        /\ (minSeverity = "warning" /\ \A i \in 1..Len(fIssues) : HasRank(fIssues[i]))
              => filteredIssues = SelectSeq(fIssues, CriticalOrWarning)

\* min_severity = warning; a warning, a nitpick and a critical issue come in,
\* the warning and the critical issue come out in that order.
C10_Witness ==
    /\ fpc = "filtered" /\ minSeverity = "warning"
    /\ Len(fIssues) = 3
    /\ fIssues[1].severity = "warning" /\ fIssues[2].severity = "nitpick"
    /\ fIssues[3].severity = "critical"
    /\ filteredIssues = <<fIssues[1], fIssues[3]>>

----------------------------------------------------------------------------
(* ReviewAnalyzer.analyze as a state machine: one action per loop iteration
   of ContextCollector.collect and per call of the model *)

\* A call issued to the platform or to the model, with the kind of value it
\* returned for getFileContent: "null", "empty" or "content"; "none" for the
\* other calls.
Call(op, path, pattern, returned) ==
    [op |-> op, path |-> path, pattern |-> pattern, returned |-> returned]

Returned(content) ==
    IF content = <<>> THEN "null" ELSE IF content[1] = <<>> THEN "empty" ELSE "content"

\* The getFileContent calls for a sequence of paths.
FetchCalls(paths, contentOf) ==
    [i \in 1..Len(paths) |->
        Call("getFileContent", paths[i], <<>>, Returned(contentOf[paths[i]]))]

InitAnalyze ==
    /\ ValidateIdle
    /\ RunIdle
    /\ ParseIdle
    /\ ResolveIdle
    /\ AdapterIdle
    /\ FilterIdle
    /\ FormatIdle
    /\ anPc = "start"
    /\ anPr \in PullRequests
    /\ anConfig \in SentinelConfigs
    /\ tree \in Trees
    /\ relevantFiles = <<>>
    /\ fileIndex = 0
    /\ changedFiles = <<>>
    /\ relatedFiles = <<>>
    /\ seenPaths = {}
    /\ diff = <<>>
    /\ calls = <<>>
    /\ analysis = <<>>

\* analyze, lines 196-208, and collect up to the first getFileContent:
\* the author check, then filterFiles.
AnalyzeEnter ==
    /\ anPc = "start"
    /\ IF AuthorIgnored(anPr, anConfig)
       THEN /\ analysis' = <<SkippedResult(emptyResponse,
             AuthorSkipReason(anPr.author))>>
            /\ anPc' = "done"
            /\ UNCHANGED <<relevantFiles, fileIndex>>
       ELSE /\ relevantFiles' = filterFiles(anPr.files, anConfig.ignore.paths)
            /\ fileIndex' = 1
            /\ anPc' = "changed"
            /\ UNCHANGED analysis
    /\ UNCHANGED <<anPr, anConfig, tree, changedFiles, relatedFiles, seenPaths, diff, calls>>
    /\ UNCHANGED <<parseVars, resolveVars, adapterVars, filterVars, formatVars, validateVars, runVars>>

\* collectChangedFiles, lines 78-88: one iteration, getFileContent
\* returning `content`.
FetchChanged(content) ==
    /\ anPc = "changed"
    /\ fileIndex <= Len(relevantFiles)
    /\ LET file == relevantFiles[fileIndex] IN
       /\ calls' = Append(calls, Call("getFileContent", file.filename, <<>>,
                                      Returned(content)))
       /\ changedFiles' = changedFiles \o ChangedFileResult(file, content)
    /\ fileIndex' = fileIndex + 1
    /\ UNCHANGED <<anPc, anPr, anConfig, tree, relevantFiles, relatedFiles, seenPaths,
                   diff, analysis>>
    /\ UNCHANGED <<parseVars, resolveVars, adapterVars, filterVars, formatVars, validateVars, runVars>>

\* collectChangedFiles returns; collectRelatedFiles, lines 94-95.
CollectRelatedEnter ==
    /\ anPc = "changed"
    /\ fileIndex > Len(relevantFiles)
    /\ anPc' = "related"
    /\ fileIndex' = 1
    /\ seenPaths' = Range(Filenames(relevantFiles))
    /\ UNCHANGED <<anPr, anConfig, tree, relevantFiles, changedFiles, relatedFiles,
          diff, calls, analysis>>
    /\ UNCHANGED <<parseVars, resolveVars, adapterVars, filterVars, formatVars, validateVars, runVars>>

\* collectRelatedFiles, lines 97-106: one iteration, getFilesInDirectory
\* returning `siblings` and getFileContent returning contentOf[path].
FindSiblings(contentOf) ==
    /\ anPc = "related"
    /\ fileIndex <= Len(relevantFiles)
    /\ LET filePath == relevantFiles[fileIndex].filename
           siblings == getFilesInDirectory(tree, SiblingPattern(filePath))
           found == findSiblingFiles(filePath, seenPaths, siblings, contentOf)
       IN  /\ calls' = Append(calls, Call("getFilesInDirectory", dirname(filePath),
                                          SiblingPattern(filePath), "none"))
                         \o FetchCalls(SiblingCandidates(filePath, seenPaths, siblings),
                                       contentOf)
           /\ relatedFiles' = relatedFiles \o found
           /\ seenPaths' = seenPaths \cup Range(Paths(found))
    /\ fileIndex' = fileIndex + 1
    /\ UNCHANGED <<anPc, anPr, anConfig, tree, relevantFiles, changedFiles, diff,
                   analysis>>
    /\ UNCHANGED <<parseVars, resolveVars, adapterVars, filterVars, formatVars, validateVars, runVars>>

\* One iteration in which getFilesInDirectory throws: findSiblingFiles
\* catches (lines 139-141) and returns no sibling.
FindSiblingsThrows ==
    /\ anPc = "related"
    /\ fileIndex <= Len(relevantFiles)
    /\ LET filePath == relevantFiles[fileIndex].filename IN
       calls' = Append(calls, Call("getFilesInDirectory", dirname(filePath),
                                   SiblingPattern(filePath), "none"))
    /\ fileIndex' = fileIndex + 1
    /\ UNCHANGED <<anPc, anPr, anConfig, tree, relevantFiles, changedFiles, relatedFiles,
                   seenPaths, diff, analysis>>
    /\ UNCHANGED <<parseVars, resolveVars, adapterVars, filterVars, formatVars, validateVars, runVars>>

\* Mutant: collectRelatedFiles returns all the siblings it found.
CollectReturnUncapped ==
    /\ anPc = "related"
    /\ fileIndex > Len(relevantFiles)
    /\ diff' = <<buildDiff(relevantFiles)>>
    /\ IF NoReviewableFiles(changedFiles)
       THEN /\ analysis' = <<SkippedResult(emptyResponse, NoFilesSkipReason)>>
            /\ anPc' = "done"
            /\ UNCHANGED calls
       ELSE /\ calls' = Append(calls, Call("analyze", <<>>, <<>>, "none"))
            /\ anPc' = "llm"
            /\ UNCHANGED analysis
    /\ UNCHANGED <<anPr, anConfig, tree, relevantFiles, fileIndex, changedFiles,
          relatedFiles, seenPaths>>
    /\ UNCHANGED <<parseVars, resolveVars, adapterVars, filterVars, formatVars, validateVars, runVars>>

\* collectRelatedFiles returns (line 109), buildDiff, collect returns;
\* analyze, lines 210-235: the check for no reviewable file, else the
\* request goes to the model.
CollectReturn ==
    /\ anPc = "related"
    /\ fileIndex > Len(relevantFiles)
    /\ relatedFiles' = Slice(relatedFiles, MaxRelated)
    /\ diff' = <<buildDiff(relevantFiles)>>
    /\ IF NoReviewableFiles(changedFiles)
       THEN /\ analysis' = <<SkippedResult(emptyResponse, NoFilesSkipReason)>>
            /\ anPc' = "done"
            /\ UNCHANGED calls
       ELSE /\ calls' = Append(calls, Call("analyze", <<>>, <<>>, "none"))
            /\ anPc' = "llm"
            /\ UNCHANGED analysis
    /\ UNCHANGED <<anPr, anConfig, tree, relevantFiles, fileIndex, changedFiles,
          seenPaths>>
    /\ UNCHANGED <<parseVars, resolveVars, adapterVars, filterVars, formatVars, validateVars, runVars>>

\* Mutant: the model is asked again before its response is used.
ModelReturnsAskedTwice(response) ==
    /\ anPc = "llm"
    /\ analysis' = <<GateResult(response, anConfig)>>
    /\ anPc' = "done"
    /\ calls' = Append(calls, Call("analyze", <<>>, <<>>, "none"))
    /\ UNCHANGED <<anPr, anConfig, tree, relevantFiles, fileIndex, changedFiles,
                   relatedFiles, seenPaths, diff>>
    /\ UNCHANGED <<parseVars, resolveVars, adapterVars, filterVars, formatVars,
                   validateVars, runVars>>

\* analyze, lines 237-254: the model returned `response`.
ModelReturns(response) ==
    /\ anPc = "llm"
    /\ analysis' = <<GateResult(response, anConfig)>>
    /\ anPc' = "done"
    /\ UNCHANGED <<anPr, anConfig, tree, relevantFiles, fileIndex, changedFiles,
                   relatedFiles, seenPaths, diff, calls>>
    /\ UNCHANGED <<parseVars, resolveVars, adapterVars, filterVars, formatVars, validateVars, runVars>>

\* llmProvider.analyze throws and analyze with it.
ModelThrows ==
    /\ anPc = "llm"
    /\ anPc' = "threw"
    /\ UNCHANGED <<anPr, anConfig, tree, relevantFiles, fileIndex, changedFiles,
                   relatedFiles, seenPaths, diff, calls, analysis>>
    /\ UNCHANGED <<parseVars, resolveVars, adapterVars, filterVars, formatVars, validateVars, runVars>>

NextAnalyze ==
    \/ AnalyzeEnter
    \/ /\ anPc = "changed"
       /\ fileIndex <= Len(relevantFiles)
       /\ \E content \in FetchResults(relevantFiles[fileIndex].filename) :
            FetchChanged(content)
    \/ CollectRelatedEnter
    \/ /\ anPc = "related"
       /\ fileIndex <= Len(relevantFiles)
       /\ \E map \in ContentMaps(Range(getFilesInDirectory(tree,
                         SiblingPattern(relevantFiles[fileIndex].filename)))) :
             FindSiblings(ContentOf(map))
    \/ FindSiblingsThrows
    \/ CollectReturn
    \/ \E response \in ModelResponses : ModelReturns(response)
    \/ ModelThrows

SpecAnalyze == InitAnalyze /\ [][NextAnalyze]_vars

\* analyze on the pull requests of three files of RelatedInputs, with
\* nothing ignored.
InitRelated ==
    /\ ValidateIdle
    /\ RunIdle
    /\ ParseIdle
    /\ ResolveIdle
    /\ AdapterIdle
    /\ FilterIdle
    /\ FormatIdle
    /\ anPc = "start"
    /\ \E input \in RelatedInputs :
          /\ anPr = [author |-> <<"d", "e", "v">>, files |-> input.files]
          /\ tree = input.tree
    /\ anConfig = [ignore |-> [paths |-> <<>>, authors |-> <<>>],
                   review |-> [min_severity |-> "warning", skip_if_effort_below |-> 3]]
    /\ relevantFiles = <<>>
    /\ fileIndex = 0
    /\ changedFiles = <<>>
    /\ relatedFiles = <<>>
    /\ seenPaths = {}
    /\ diff = <<>>
    /\ calls = <<>>
    /\ analysis = <<>>

SpecRelated == InitRelated /\ [][NextAnalyze]_vars


----------------------------------------------------------------------------
(* Properties of ReviewAnalyzer.analyze, checked under SpecAnalyze *)

\* The author of the pull request is one of config.ignore.authors.
AuthorListed ==
    \E i \in 1..Len(anConfig.ignore.authors) : anConfig.ignore.authors[i] = anPr.author

\* The model has been called; the platform has been asked for a content or
\* a listing.
ModelCalled == \E i \in 1..Len(calls) : calls[i].op = "analyze"

PlatformCalled ==
    \E i \in 1..Len(calls) : calls[i].op \in {"getFileContent",
          "getFilesInDirectory"}

\* The digit of an effort score or threshold.
ScoreDigit(n) ==
    CASE n = 1 -> "1" [] n = 2 -> "2" [] n = 3 -> "3" [] n = 4 -> "4" [] n = 5 -> "5"

ExpectedEffortReason(effortScore, threshold) ==
    <<"P", "R", " ", "e", "f", "f", "o", "r", "t", " ", "s", "c", "o", "r", "e",
          " ", "(">> \o <<ScoreDigit(effortScore)>>
        \o <<")", " ", "b", "e", "l", "o", "w", " ", "t", "h", "r", "e", "s", "h",
              "o", "l", "d", " ", "(">> \o <<ScoreDigit(threshold)>> \o <<")">>

\* C11: when the response of the model has an effortScore below
\* skip_if_effort_below, analyze returns skipped = true, no filtered issue and
\* the reason "PR effort score (<score>) below threshold (<threshold>)",
\* whatever issues the response holds; when the effortScore is at least the
\* threshold the result is not skipped and has no reason.
C11_EffortGate ==
    (anPc = "done" /\ ModelCalled) =>
        LET r == analysis[1]
            effortScore == r.response.effortScore
            threshold == anConfig.review.skip_if_effort_below
        IN  /\ r.response \in ModelResponses
            /\ effortScore < threshold =>
                  /\ r.skipped
                  /\ r.filteredIssues = <<>>
                  /\ r.skipReason = <<ExpectedEffortReason(effortScore, threshold)>>
            /\ effortScore >= threshold =>
                  /\ ~r.skipped
                  /\ r.skipReason = <<>>

\* A response of score 1 with three issues, skipped under the threshold 3.
C11_Witness ==
    /\ anPc = "done" /\ ModelCalled
    /\ anConfig.review.skip_if_effort_below = 3
    /\ analysis[1].response.effortScore = 1
    /\ Len(analysis[1].response.issues) = 3
    /\ analysis[1].skipped /\ analysis[1].filteredIssues = <<>>

\* C12: when the author of the pull request is in config.ignore.authors,
\* analyze returns skipped = true, no issue and the reason "PR author <author>
\* is in ignore list", and in no state of the run has the model been called or
\* the platform been asked for a file content or a directory listing.
C12_AuthorSkip ==
    AuthorListed =>
        /\ calls = <<>> /\ ~ModelCalled /\ ~PlatformCalled
        /\ anPc \in {"start", "done"}
        /\ anPc = "done" =>
              /\ analysis # <<>>
              /\ analysis[1].skipped
              /\ analysis[1].filteredIssues = <<>>
              /\ analysis[1].response.issues = <<>>
              /\ analysis[1].skipReason = <<<<"P", "R", " ", "a", "u", "t", "h",
                    "o", "r", " ", "b", "o", "t", " ", "i", "s", " ", "i", "n",
                    " ", "i", "g", "n", "o", "r", "e", " ", "l", "i", "s", "t">>>>

\* A skipped run on a pull request of an ignored author that lists files
\* analyze would otherwise fetch.
C12_Witness ==
    /\ anPc = "done" /\ AuthorListed
    /\ Len(anPr.files) = 2
    /\ \A i \in 1..Len(anPr.files) : anPr.files[i].status # "deleted"
    /\ anConfig.ignore.paths = <<>>
    /\ analysis[1].skipped /\ calls = <<>>

\* C13: when collect returns no changed file, analyze returns skipped = true,
\* no issue and the reason "No reviewable files in PR", and the model is not
\* called in that run; the model is called only with a changed file at hand.
C13_NoReviewableFiles ==
    /\ (anPc \in {"llm", "done",
          "threw"} /\ ~AuthorListed /\ changedFiles = <<>>) =>
          /\ anPc = "done"
          /\ ~ModelCalled
          /\ analysis # <<>>
          /\ analysis[1].skipped
          /\ analysis[1].filteredIssues = <<>>
          /\ analysis[1].response.issues = <<>>
          /\ analysis[1].skipReason = <<<<"N", "o", " ", "r", "e", "v", "i", "e",
                "w", "a", "b", "l", "e", " ", "f", "i", "l", "e", "s", " ", "i",
                "n", " ", "P", "R">>>>
    /\ ModelCalled => changedFiles # <<>>

\* Two files survive the filter and neither fetch returns a content.
C13_Witness ==
    /\ anPc = "done" /\ ~AuthorListed
    /\ Len(relevantFiles) = 2 /\ changedFiles = <<>>
    /\ Len(calls) >= 2 /\ calls[1].returned = "null" /\ calls[2].returned = "empty"
    /\ analysis[1].skipped /\ ~ModelCalled


\* Whether a path of the pull requests matches an ignore pattern of the
\* configurations, written out pattern by pattern.
IgnoredByPattern(filename, pattern) ==
    \/ /\ pattern = <<"*", "*", "/", "*", ".", "t", "e", "s", "t", ".", "t", "s">>
       /\ filename = <<"s", "r", "c", "/", "a", ".", "t", "e", "s", "t", ".", "t",
             "s">>
    \/ /\ pattern = <<"d", "o", "c", "s", "/", "*", "*">>
       /\ filename = <<"d", "o", "c", "s", "/", "r", ".", "m", "d">>

ExpectedKept(file) ==
    /\ file.status # "deleted"
    /\ \A i \in 1..Len(anConfig.ignore.paths) :
          ~IgnoredByPattern(file.filename, anConfig.ignore.paths[i])

\* collect has filtered the files of the pull request.
Filtered == anPc # "start" /\ ~AuthorListed

\* C16: the files collect works on are the files of the pull request that
\* are not deleted and match no ignore pattern, every one of them and in
\* order; every changed file of the context is one of them; and for the files
\* src/a.ts, src/a.test.ts under the pattern **/*.test.ts the files kept are
\* exactly src/a.ts, which is the only changed file and the only section of
\* the diff.
C16_IgnoreFiltering ==
    Filtered =>
        /\ relevantFiles = SelectSeq(anPr.files, ExpectedKept)
        /\ \A i \in 1..Len(changedFiles) :
              \E j \in 1..Len(relevantFiles) :
                 changedFiles[i].path = relevantFiles[j].filename
        /\ ( /\ Filenames(anPr.files) = <<<<"s", "r", "c", "/", "a", ".", "t",
              "s">>, <<"s", "r", "c", "/", "a", ".", "t", "e", "s", "t", ".", "t",
              "s">>>>
             /\ anConfig.ignore.paths = <<<<"*", "*", "/", "*", ".", "t", "e", "s",
                   "t", ".", "t", "s">>>> ) =>
              /\ Filenames(relevantFiles) = <<<<"s", "r", "c", "/", "a", ".", "t",
                    "s">>>>
              /\ \A i \in 1..Len(changedFiles) : changedFiles[i].path = <<"s", "r",
                    "c", "/", "a", ".", "t", "s">>
              /\ (anPc = "changed" /\ fileIndex = 2 /\ calls[1].returned = "content")
                    => Paths(changedFiles) = <<<<"s", "r", "c", "/", "a", ".", "t",
                          "s">>>>
              /\ diff # <<>> =>
                    Split(diff[1], NL)[1] = <<"d", "i", "f", "f", " ", "-", "-",
                          "g", "i", "t", " ", "a", "/", "s", "r", "c", "/", "a",
                          ".", "t", "s", " ", "b", "/", "s", "r", "c", "/", "a",
                          ".", "t", "s">>
              /\ diff # <<>> =>
                    \A i \in 2..Len(Split(diff[1], NL)) :
                       ~startsWith(Split(diff[1], NL)[i], <<"d", "i", "f", "f",
                             " ", "-", "-", "g", "i", "t", " ">>)

\* The run on src/a.ts and src/a.test.ts under **/*.test.ts, with src/a.ts
\* as the one changed file.
C16_Witness ==
    /\ anPc = "done"
    /\ Filenames(anPr.files) = <<<<"s", "r", "c", "/", "a", ".", "t", "s">>, <<"s",
          "r", "c", "/", "a", ".", "t", "e", "s", "t", ".", "t", "s">>>>
    /\ anConfig.ignore.paths = <<<<"*", "*", "/", "*", ".", "t", "e", "s", "t",
          ".", "t", "s">>>>
    /\ Paths(changedFiles) = <<<<"s", "r", "c", "/", "a", ".", "t", "s">>>>
    /\ diff # <<>>

\* The number of getFileContent calls collectChangedFiles has made.
FetchedCount == IF anPc = "changed" THEN fileIndex - 1 ELSE Len(relevantFiles)

\* The positions of the filtered files whose fetch returned a content.
FetchedWithContent ==
    LET got(i) == calls[i].returned = "content"
    IN  SelectSeq([i \in 1..FetchedCount |-> i], got)

\* C17: collectChangedFiles asks for the content of every filtered file, one
\* after the other and whatever the earlier fetches returned; changedFiles
\* holds exactly the files whose fetch returned a content, with that content;
\* and the run goes on to the end of collect: only the model call can make
\* analyze throw.
C17_FetchFailureExcluded ==
    Filtered =>
        /\ Len(calls) >= FetchedCount
        /\ \A i \in 1..FetchedCount :
              /\ calls[i].op = "getFileContent"
              /\ calls[i].path = relevantFiles[i].filename
        /\ changedFiles =
              [k \in 1..Len(FetchedWithContent) |->
                 [path |-> relevantFiles[FetchedWithContent[k]].filename,
                  content |-> <<"x">>,
                  role |-> "changed"]]
        /\ anPc = "threw" => ModelCalled

\* The first fetch returns null, the second a content, and the model is
\* asked about the second file alone.
C17_Witness ==
    /\ anPc = "done" /\ ModelCalled
    /\ Len(relevantFiles) = 2
    /\ calls[1].returned = "null" /\ calls[2].returned = "content"
    /\ Paths(changedFiles) = <<relevantFiles[2].filename>>

\* The position of a file name in the files of the pull request.
PositionInPr(filename) ==
    CHOOSE k \in 1..Len(anPr.files) : anPr.files[k].filename = filename

\* names is a subsequence of the file names of the pull request.
InPrOrder(names) ==
    /\ \A i \in 1..Len(names) :
          \E k \in 1..Len(anPr.files) : anPr.files[k].filename = names[i]
    /\ \A i, j \in 1..Len(names) :
          i < j => PositionInPr(names[i]) < PositionInPr(names[j])

ExpectedHeader(filename) ==
    <<"d", "i", "f", "f", " ", "-", "-", "g", "i", "t", " ", "a",
          "/">> \o filename \o <<" ", "b", "/">> \o filename

\* The lines of the combined diff; none for the empty diff.
DiffLines == IF diff = <<>> \/ diff[1] = <<>> THEN <<>> ELSE Split(diff[1], NL)

\* The file names of the header lines of the combined diff, in the order of
\* the lines.
SectionNames ==
    LET isHeader(line) ==
            startsWith(line, <<"d", "i", "f", "f", " ", "-", "-", "g", "i", "t",
                                " ", "a", "/">>)
        headers == SelectSeq(DiffLines, isHeader)
        names == {Path.a, Path.aTest, Path.b, Path.r}
    IN  [i \in 1..Len(headers) |->
            IF \E f \in names : headers[i] = ExpectedHeader(f)
            THEN CHOOSE f \in names : headers[i] = ExpectedHeader(f)
            ELSE <<>>]

\* C18: the paths of changedFiles and the file names of the sections of the
\* combined diff are subsequences of the file names of pr.files.
C18_PlatformOrder ==
    /\ InPrOrder(Paths(changedFiles))
    /\ \A i \in 1..Len(SectionNames) : SectionNames[i] # <<>>
    /\ InPrOrder(SectionNames)

\* Two files with a content and a patch: both lists follow pr.files.
C18_Witness ==
    /\ anPc = "done"
    /\ Len(changedFiles) = 2 /\ Paths(changedFiles) = Filenames(anPr.files)
    /\ Len(SectionNames) = 2 /\ SectionNames = Filenames(anPr.files)

\* ls is, for each of the files with a patch and in their order, a header of
\* h lines that starts with the diff --git line, followed by the lines of
\* the patch; nothing else.
RECURSIVE SectionsAt(_, _, _)
SectionsAt(ls, files, h) ==
    IF files = <<>> THEN ls = <<>>
    ELSE IF NoPatch(Head(files).patch) THEN SectionsAt(ls, Tail(files), h)
    ELSE LET patchLines == Split(Head(files).patch[1], NL)
             n == h + Len(patchLines)
         IN  /\ Len(ls) >= n
             /\ ls[1] = ExpectedHeader(Head(files).filename)
             /\ SubSeq(ls, h + 1, n) = patchLines
             /\ SectionsAt(SubSeq(ls, n + 1, Len(ls)), Tail(files), h)

\* C19 as stated: the combined diff is, for every file with a patch, a
\* header of two lines followed by the patch.
C19_TwoLineHeader ==
    diff # <<>> => SectionsAt(DiffLines, relevantFiles, 2)

\* C19: the combined diff is, for every file that survives the filter and
\* has a patch and in the order of these files, the one line
\* diff --git a/<path> b/<path> followed by the lines of the patch, the
\* pieces joined by single newlines; a file without a patch, a deleted file
\* and an ignored file contribute nothing.
C19_DiffSections ==
    diff # <<>> => SectionsAt(DiffLines, SelectSeq(anPr.files, ExpectedKept), 1)

\* A diff of two sections behind a run whose pull request also lists a file
\* that contributes nothing, or a diff of one section next to a file without
\* a patch.
C19_Witness ==
    /\ diff # <<>>
    /\ Len(anPr.files) = 2
    /\ \E i \in 1..2 : NoPatch(anPr.files[i].patch) /\ anPr.files[i].status # "deleted"
    /\ anConfig.ignore.paths = <<>>
    /\ Len(SectionNames) = 1
    /\ Len(DiffLines) > 1

\* C20: no related file is a file that the pull request lists.
C20_RelatedNotChanged ==
    \A i \in 1..Len(relatedFiles) :
       \A k \in 1..Len(anPr.files) : relatedFiles[i].path # anPr.files[k].filename

----------------------------------------------------------------------------
(* Properties of findSiblingFiles and collectRelatedFiles *)

Minimum(a, b) == IF a < b THEN a ELSE b

\* Whether a path of the working directories lies in the directory and has
\* the extension of a pattern findSiblingFiles builds, written out.
ListedUnder(path, pattern) ==
    \/ /\ pattern = <<"s", "r", "c", "/", "*", ".", "t", "s">>
       /\ path \in {<<"s", "r", "c", "/", "a", ".", "t", "s">>, <<"s", "r", "c",
             "/", "a", ".", "t", "e", "s", "t", ".", "t", "s">>, <<"s", "r", "c",
             "/", "c", ".", "t", "s">>, <<"s", "r", "c", "/", "d", ".", "t", "s">>}
    \/ /\ pattern = <<"d", "o", "c", "s", "/", "*", ".", "m", "d">>
       /\ path \in {<<"d", "o", "c", "s", "/", "r", ".", "m", "d">>, <<"d", "o",
             "c", "s", "/", "s", ".", "m", "d">>, <<"d", "o", "c", "s", "/", "t",
             ".", "m", "d">>}
    \/ /\ pattern = <<"l", "i", "b", "/", "*", ".", "j", "s">>
       /\ path \in {<<"l", "i", "b", "/", "u", ".", "j", "s">>, <<"l", "i", "b",
             "/", "v", ".", "j", "s">>, <<"l", "i", "b", "/", "w", ".", "j", "s">>}

\* The pattern findSiblingFiles builds for a file of the pull requests.
ExpectedPattern(filename) ==
    CASE filename \in {<<"s", "r", "c", "/", "a", ".", "t", "s">>, <<"s", "r", "c",
          "/", "a", ".", "t", "e", "s", "t", ".", "t", "s">>, <<"s", "r", "c", "/",
          "b", ".", "t", "s">>} -> <<"s", "r", "c", "/", "*", ".", "t", "s">>
      [] filename = <<"d", "o", "c", "s", "/", "r", ".", "m", "d">> -> <<"d", "o",
            "c", "s", "/", "*", ".", "m", "d">>
      [] filename = <<"l", "i", "b", "/", "u", ".", "j", "s">> -> <<"l", "i", "b",
            "/", "*", ".", "j", "s">>

\* The listing getFilesInDirectory returns for the j-th filtered file.
ExpectedListing(j) ==
    LET under(path) == ListedUnder(path, ExpectedPattern(relevantFiles[j].filename))
    IN  SelectSeq(tree, under)

\* The positions of the getFilesInDirectory calls in the call log: the
\* j-th of them is the listing for the j-th filtered file.
ListingCalls ==
    LET isListing(i) == calls[i].op = "getFilesInDirectory"
    IN  SelectSeq([i \in 1..Len(calls) |-> i], isListing)

\* The paths whose content was asked for on behalf of the j-th filtered
\* file, and those of them for which a content came back: its siblings.
SiblingFetches(j) ==
    LET from == ListingCalls[j]
        to == IF j < Len(ListingCalls) THEN ListingCalls[j + 1] - 1 ELSE Len(calls)
        isFetch(i) == calls[i].op = "getFileContent"
    IN  SelectSeq([k \in 1..(to - from) |-> from + k], isFetch)

SiblingsOf(j) ==
    LET got(i) == calls[i].returned = "content"
        at == SelectSeq(SiblingFetches(j), got)
    IN  [k \in 1..Len(at) |-> calls[at[k]].path]

\* The siblings of all the files so far, in the order they were found.
RECURSIVE SiblingsUpTo(_)
SiblingsUpTo(j) == IF j = 0 THEN <<>> ELSE SiblingsUpTo(j - 1) \o SiblingsOf(j)

\* C28: for every filtered file the listing is asked for once, with the
\* pattern of its directory and extension; every path whose content is then
\* asked for, and so every sibling of the file, is the first or the second
\* entry of the listing; and the related files are the siblings found.
C28_FirstTwoEntriesOnly ==
    /\ \A j \in 1..Len(ListingCalls) :
          /\ j <= Len(relevantFiles)
          /\ calls[ListingCalls[j]].pattern =
                ExpectedPattern(relevantFiles[j].filename)
          /\ \A k \in 1..Len(SiblingFetches(j)) :
                \E q \in 1..2 :
                   /\ q <= Len(ExpectedListing(j))
                   /\ calls[SiblingFetches(j)[k]].path = ExpectedListing(j)[q]
          /\ \A q \in 3..Len(ExpectedListing(j)) :
                \A k \in 1..Len(SiblingsOf(j)) :
                   SiblingsOf(j)[k] # ExpectedListing(j)[q]
    /\ anPc = "related" => Paths(relatedFiles) = SiblingsUpTo(Len(ListingCalls))
    /\ anPc \in {"llm", "done", "threw"} /\ ~AuthorListed =>
          Paths(relatedFiles) = SubSeq(SiblingsUpTo(Len(ListingCalls)), 1,
                                       Minimum(5,
                                             Len(SiblingsUpTo(Len(ListingCalls)))))

\* src/a.ts and src/a.test.ts are both changed, the listing of src/*.ts is
\* src/a.test.ts, src/a.ts, src/c.ts: the first two entries are excluded and
\* src/c.ts, the third, is not asked for and is no sibling.
C28_Witness ==
    /\ anPc = "done"
    /\ Filenames(relevantFiles) = <<<<"s", "r", "c", "/", "a", ".", "t", "s">>,
          <<"s", "r", "c", "/", "a", ".", "t", "e", "s", "t", ".", "t", "s">>>>
    /\ tree = <<<<"s", "r", "c", "/", "a", ".", "t", "e", "s", "t", ".", "t",
          "s">>, <<"s", "r", "c", "/", "a", ".", "t", "s">>, <<"s", "r", "c", "/",
          "c", ".", "t", "s">>, <<"d", "o", "c", "s", "/", "r", ".", "m", "d">>,
          <<"d", "o", "c", "s", "/", "s", ".", "m", "d">>>>
    /\ Len(ListingCalls) = 2
    /\ ExpectedListing(1) = <<<<"s", "r", "c", "/", "a", ".", "t", "e", "s", "t",
          ".", "t", "s">>, <<"s", "r", "c", "/", "a", ".", "t", "s">>, <<"s", "r",
          "c", "/", "c", ".", "t", "s">>>>
    /\ SiblingFetches(1) = <<>> /\ SiblingFetches(2) = <<>>
    /\ relatedFiles = <<>>
    /\ ModelCalled

\* C21: no changed file contributes more than two siblings, relatedFiles
\* holds at most five files once collectRelatedFiles has returned, and no
\* path is in relatedFiles twice.
C21_RelatedBounds ==
    /\ \A j \in 1..Len(ListingCalls) : Len(SiblingsOf(j)) <= 2
    /\ \A i, j \in 1..Len(relatedFiles) :
          relatedFiles[i].path = relatedFiles[j].path => i = j
    /\ anPc \in {"llm", "done", "threw"} => Len(relatedFiles) <= 5
    /\ anPc \in {"llm", "done", "threw"} =>
          \A i \in 1..Len(relatedFiles) :
             relatedFiles[i].path = SiblingsUpTo(Len(ListingCalls))[i]

\* Each of three changed files had two siblings, six in all, and
\* relatedFiles holds the first five of them.
C21_Witness ==
    /\ anPc = "done"
    /\ Len(ListingCalls) = 3
    /\ \A j \in 1..3 : Len(SiblingsOf(j)) = 2
    /\ Len(SiblingsUpTo(3)) = 6
    /\ Paths(relatedFiles) = <<<<"s", "r", "c", "/", "c", ".", "t", "s">>, <<"s",
          "r", "c", "/", "d", ".", "t", "s">>, <<"d", "o", "c", "s", "/", "s", ".",
          "m", "d">>, <<"d", "o", "c", "s", "/", "t", ".", "m", "d">>,
                               <<"l", "i", "b", "/", "v", ".", "j", "s">>>>

----------------------------------------------------------------------------
(* OutputFormatter.format as a state machine: one call *)

\* The response and the issues that analyze hands over: the filtered issues
\* are issues of the response.
InitFormat ==
    /\ ValidateIdle
    /\ RunIdle
    /\ ParseIdle
    /\ ResolveIdle
    /\ AdapterIdle
    /\ FilterIdle
    /\ AnalyzeIdle
    /\ fmtPc = "start"
    /\ fmtConfig \in FormatterConfigs
    /\ fmtIssues \in {<<>>} \cup SeqsUpTo(FormatIssueRecords, MaxFormatIssues)
    /\ fmtResponse \in [summary : {<<"o", "k">>}, effortScore : {2, 5},
          issues : {fmtIssues}]
    /\ output = <<>>

\* format, lines 18-24.
Format ==
    /\ fmtPc = "start"
    /\ output' = << [summary |-> formatSummary(fmtResponse, fmtIssues,
                                               fmtConfig.llmProviderName),
                     inlineComments |->
                         formatInlineComments(fmtIssues,
                             fmtConfig.output.max_inline_comments),
                     labels |-> generateLabels(fmtResponse, fmtIssues,
                                               fmtConfig.output.labels)] >>
    /\ fmtPc' = "done"
    /\ UNCHANGED <<fmtConfig, fmtResponse, fmtIssues>>
    /\ UNCHANGED <<parseVars, resolveVars, adapterVars, filterVars, analyzeVars, validateVars, runVars>>

NextFormat == Format

SpecFormat == InitFormat /\ [][NextFormat]_vars

----------------------------------------------------------------------------
(* Properties of OutputFormatter.format, checked under SpecFormat *)

\* The positions of the issues that carry a line number.
WithLine == { p \in 1..Len(fmtIssues) : fmtIssues[p].line # <<>> }

\* The position of the j-th issue that carries a line number.
NthWithLine(j) ==
    CHOOSE p \in WithLine : Cardinality({ q \in WithLine : q <= p }) = j

ExpectedIcon(severity) ==
    CASE severity = "critical" -> "U+1F534"
      [] severity = "warning" -> "U+1F7E1"
      [] severity = "suggestion" -> "U+1F4A1"
      [] severity = "nitpick" -> "U+1F4DD"

\* C14: format returns at most max_inline_comments inline comments: one for
\* each of the first min(max_inline_comments, k) of the k issues that carry a
\* line number, in the order of the issues, on the file and the line of the
\* issue.
C14_InlineCommentsPrefix ==
    fmtPc = "done" =>
        LET comments == output[1].inlineComments
            maxComments == fmtConfig.output.max_inline_comments
        IN  /\ Len(comments) <= maxComments
            /\ Len(comments) = Minimum(maxComments, Cardinality(WithLine))
            /\ \A j \in 1..Len(comments) :
                  LET issue == fmtIssues[NthWithLine(j)] IN
                  /\ comments[j].path = issue.file
                  /\ comments[j].line = issue.line[1]
                  /\ comments[j].side = "RIGHT"
                  /\ comments[j].body[1] = ExpectedIcon(issue.severity)

\* Three issues, the first without a line, the second a nitpick and the
\* third critical, under a maximum of 1: the one comment is the nitpick's.
C14_Witness ==
    /\ fmtPc = "done"
    /\ fmtConfig.output.max_inline_comments = 1
    /\ Len(fmtIssues) = 3
    /\ fmtIssues[1].line = <<>>
    /\ fmtIssues[2].severity = "nitpick" /\ fmtIssues[2].line = <<3>>
    /\ fmtIssues[3].severity = "critical" /\ fmtIssues[3].line = <<7>>
    /\ Len(output[1].inlineComments) = 1
    /\ output[1].inlineComments[1].line = 3

\* An issue of the category security and of severity critical or warning
\* is among the issues.
SecurityIssueFound ==
    \E p \in 1..Len(fmtIssues) :
       /\ fmtIssues[p].category = "security"
       /\ fmtIssues[p].severity \in {"critical", "warning"}

\* C15: with labels disabled format returns no label; with labels enabled
\* the configured security label is among the labels exactly when an issue
\* of the category security and severity critical or warning is among the
\* issues, and exactly one label is the effort prefix followed by the effort
\* score.
C15_Labels ==
    fmtPc = "done" =>
        LET labels == output[1].labels
            effort == <<"e", "f", "f", "o", "r", "t",
                  ":">> \o <<ScoreDigit(fmtResponse.effortScore)>>
        IN  /\ ~fmtConfig.output.labels.enabled => labels = <<>>
            /\ fmtConfig.output.labels.enabled =>
                  /\ (\E k \in 1..Len(labels) : labels[k] = <<"s", "e", "c", "u",
                        "r", "i", "t", "y">>)
                        <=> SecurityIssueFound
                  /\ Cardinality({ k \in 1..Len(labels) : labels[k] = effort }) = 1
                  /\ Cardinality({ k \in 1..Len(labels) :
                                      startsWith(labels[k], <<"e", "f", "f", "o",
                                            "r", "t", ":">>) }) = 1

\* Labels enabled, a security issue that is only a suggestion next to a
\* critical issue of another category: the one label is the effort label.
C15_Witness ==
    /\ fmtPc = "done"
    /\ fmtConfig.output.labels.enabled
    /\ \E p \in 1..Len(fmtIssues) :
          fmtIssues[p].category = "security" /\ fmtIssues[p].severity = "suggestion"
    /\ \E p \in 1..Len(fmtIssues) :
          fmtIssues[p].category = "bugs" /\ fmtIssues[p].severity = "critical"
    /\ ~SecurityIssueFound
    /\ fmtResponse.effortScore = 5
    /\ output[1].labels = <<<<"e", "f", "f", "o", "r", "t", ":", "5">>>>

\* The lines of a text: the pieces between its newlines.
LinesOf(text) ==
    LET breaks == SelectSeq([i \in 1..Len(text) |-> i], LAMBDA i : text[i] = NL)
    IN  [k \in 1..(Len(breaks) + 1) |->
            SubSeq(text,
                   IF k = 1 THEN 1 ELSE breaks[k - 1] + 1,
                   IF k = Len(breaks) + 1 THEN Len(text) ELSE breaks[k] - 1)]

\* The lines of the summary, when format has returned.
SummaryLines == IF output = <<>> THEN <<>> ELSE LinesOf(output[1].summary)

\* The line of the summary for an issue of FormatIssueRecords, written out.
ExpectedIssueLine(issue) ==
    <<"-", " ", "*", "*", "T", "*", "*", " ", "i", "n", " ", "U+0060", "s", "r",
          "c", "/", "a", ".", "t", "s">>
        \o (CASE issue.line = <<7>> -> <<":", "7">>
              [] issue.line = <<9>> -> <<":", "9">>
              [] issue.line = <<3>> -> <<":", "3">>
              [] OTHER -> <<>>)
        \o <<"U+0060", " ", "-", " ", "D">>

\* The group of a severity: nothing when no issue has it, else its heading
\* with the count, the issues that have it in input order, an empty line.
ExpectedGroup(severity) ==
    LET at == SelectSeq([i \in 1..Len(fmtIssues) |-> i],
                        LAMBDA i : fmtIssues[i].severity = severity)
        heading == CASE severity = "critical" -> <<"#", "#", "#", "#", " ", "C",
              "r", "i", "t", "i", "c", "a", "l", " ", "(">>
                     [] severity = "warning" -> <<"#", "#", "#", "#", " ", "W",
                           "a", "r", "n", "i", "n", "g", "s", " ", "(">>
                     [] severity = "suggestion" -> <<"#", "#", "#", "#", " ", "S",
                           "u", "g", "g", "e", "s", "t", "i", "o", "n", "s", " ",
                           "(">>
                     [] severity = "nitpick" -> <<"#", "#", "#", "#", " ", "N",
                           "i", "t", "p", "i", "c", "k", "s", " ", "(">>
        count == CASE Len(at) = 1 -> <<"1", ")">> [] Len(at) = 2 -> <<"2", ")">>
                   [] Len(at) = 3 -> <<"3", ")">> [] Len(at) = 4 -> <<"4", ")">>
    IN  IF at = <<>> THEN <<>>
        ELSE <<heading \o count>>
                \o [k \in 1..Len(at) |-> ExpectedIssueLine(fmtIssues[at[k]])]
                \o << <<>> >>

\* C25: between the summary text and the footer, the summary holds the
\* groups of critical, warning, suggestion and nitpick issues in this order
\* under the heading Issues Found, a group with no issue left out, each with
\* its count and its issues in input order; with no issue at all it holds
\* the text No issues found. Great job! and no group.
C25_SummaryGroups ==
    fmtPc = "done" =>
       /\ Len(SummaryLines) >= 9
       /\ SubSeq(SummaryLines, 5, 7) = <<<<"#", "#", "#", " ", "S", "u", "m", "m",
             "a", "r", "y">>, fmtResponse.summary, <<>>>>
       /\ SubSeq(SummaryLines, Len(SummaryLines) - 1,
             Len(SummaryLines) - 1) = <<<<"-", "-", "-">>>>
       /\ SubSeq(SummaryLines, 8, Len(SummaryLines) - 2) =
             IF Len(fmtIssues) = 0
             THEN <<<<"N", "o", " ", "i", "s", "s", "u", "e", "s", " ", "f", "o",
                   "u", "n", "d", ".", " ", "G", "r", "e", "a", "t", " ", "j", "o",
                   "b", "!">>, <<>>>>
             ELSE <<<<"#", "#", "#", " ", "I", "s", "s", "u", "e", "s", " ", "F",
                   "o", "u", "n", "d">>, <<>>>>
                     \o ExpectedGroup("critical") \o ExpectedGroup("warning")
                     \o ExpectedGroup("suggestion") \o ExpectedGroup("nitpick")

\* A nitpick followed by two critical issues: the critical group comes
\* first with both issues in input order, then the nitpick group; there is
\* no group of warnings or suggestions.
C25_Witness ==
    /\ fmtPc = "done"
    /\ fmtIssues = <<Issue("nitpick", "bugs", <<3>>), Issue("critical", "bugs",
          <<>>),
                     Issue("critical", "security", <<7>>)>>
    /\ SubSeq(SummaryLines, 8, Len(SummaryLines) - 2) =
          <<<<"#", "#", "#", " ", "I", "s", "s", "u", "e", "s", " ", "F", "o", "u",
                "n", "d">>, <<>>,
            <<"#", "#", "#", "#", " ", "C", "r", "i", "t", "i", "c", "a", "l", " ",
                  "(", "2", ")">>,
            <<"-", " ", "*", "*", "T", "*", "*", " ", "i", "n", " ", "U+0060", "s",
                  "r", "c", "/", "a", ".", "t", "s", "U+0060", " ", "-", " ", "D">>,
            <<"-", " ", "*", "*", "T", "*", "*", " ", "i", "n", " ", "U+0060", "s",
                  "r", "c", "/", "a", ".", "t", "s", ":", "7", "U+0060", " ", "-",
                  " ", "D">>,
            <<>>,
            <<"#", "#", "#", "#", " ", "N", "i", "t", "p", "i", "c", "k", "s", " ",
                  "(", "1", ")">>,
            <<"-", " ", "*", "*", "T", "*", "*", " ", "i", "n", " ", "U+0060", "s",
                  "r", "c", "/", "a", ".", "t", "s", ":", "3", "U+0060", " ", "-",
                  " ", "D">>,
            <<>>>>


----------------------------------------------------------------------------
(* OllamaProvider.validateResponse as a state machine: one call, and the
   call of filterBySeverity that analyze makes on what it returned *)

InitValidate ==
    /\ ParseIdle
    /\ ResolveIdle
    /\ AdapterIdle
    /\ AnalyzeIdle
    /\ FormatIdle
    /\ RunIdle
    /\ fpc = "idle"
    /\ minSeverity \in Severities
    /\ fIssues = <<>>
    /\ filteredIssues = <<>>
    /\ valPc = "start"
    /\ valResponse \in RawResponses
    /\ valResult = <<>>

\* validateResponse(parsed), ollama.ts:63-91; reading r.summary of null
\* throws.
ValidateResponse ==
    /\ valPc = "start"
    /\ IF valResponse.type = "null"
       THEN /\ valPc' = "threw"
            /\ UNCHANGED valResult
       ELSE /\ valPc' = "validated"
            /\ valResult' = <<validateResponse(valResponse)>>
    /\ UNCHANGED valResponse
    /\ UNCHANGED <<parseVars, resolveVars, adapterVars, filterVars, analyzeVars,
                   formatVars, runVars>>

NextValidate ==
    \/ ValidateResponse
    \/ /\ valPc = "validated"
       /\ FilterBySeverity([k \in 1..Len(valResult[1].issues) |->
                               AsReviewIssue(valResult[1].issues[k])])

SpecValidate == InitValidate /\ [][NextValidate]_vars

----------------------------------------------------------------------------
(* Properties of validateResponse, checked under SpecValidate *)

\* The raw issues of the response, <<>> when issues is no array.
RawIssuesIn ==
    IF valResponse.type = "object" /\ valResponse.fields.issues.type = "array"
    THEN valResponse.fields.issues.items
    ELSE <<>>

\* Every required field of a raw issue is there and is a string.
WellFormed(issue) ==
    /\ issue.type = "object"
    /\ \A name \in {"severity", "category", "file", "title", "description"} :
          /\ name \in DOMAIN issue.fields
          /\ issue.fields[name].type = "string"

\* The effort score read from the raw response is a number.
NumericScore ==
    /\ valResponse.type = "object"
    /\ valResponse.fields.effortScore.type = "number"

\* The integer nearest to a raw score of RawEffortScores, written out.
Nearest(tenths) ==
    CASE tenths = 0 - 10 -> 0 - 1
      [] tenths = 0 -> 0
      [] tenths = 4 -> 0
      [] tenths = 25 -> 3
      [] tenths = 30 -> 3
      [] tenths = 70 -> 7

\* C22: when validateResponse has returned, effortScore is an integer from 1
\* to 5: a numeric score below 1 became 1, one above 5 became 5, a missing or
\* non-numeric score became 3; summary is a non-empty string, the given one
\* or the default; and the issues are the entries that have every required
\* field as a string, in order.
C22_ValidatedResponse ==
    valPc = "validated" =>
       LET r == valResult[1] IN
       /\ r.effortScore \in 1..5
       /\ NumericScore =>
             LET n == Nearest(valResponse.fields.effortScore.tenths) IN
             r.effortScore = IF n < 1 THEN 1 ELSE IF n > 5 THEN 5 ELSE n
       /\ ~NumericScore => r.effortScore = 3
       /\ r.summary # <<>>
       /\ r.summary = IF valResponse.fields.summary = JsonString(<<"o", "k">>)
                      THEN <<"o", "k">>
                      ELSE <<"U", "n", "a", "b", "l", "e", " ", "t", "o", " ", "g",
                            "e", "n", "e", "r", "a", "t", "e", " ", "s", "u", "m",
                            "m", "a", "r", "y", ".">>
       /\ r.issues = SelectSeq(RawIssuesIn, WellFormed)


\* C27: every issue analyze keeps of a validated response has one of the
\* severities critical, warning, suggestion, nitpick, of a rank that is at
\* most the rank of min_severity.
C27_FilteredSeverities ==
    (valPc = "validated" /\ fpc = "filtered") =>
       \A i \in 1..Len(filteredIssues) :
          /\ filteredIssues[i].severity \in {"critical", "warning", "suggestion",
                "nitpick"}
          /\ Rank(filteredIssues[i].severity) <= Rank(minSeverity)

----------------------------------------------------------------------------
(* run of index.ts as a state machine: one action per awaited call, the
   actions of ReviewAnalyzer.analyze between getPullRequest and format *)

\* The pull requests the platform lists for the run.
RunPullRequests ==
    [author : {<<"b", "o", "t">>},
     files :
        { <<>>,
          << [filename |-> Path.a, status |-> "modified",
                patch |-> <<Patch_10>>] >>,
          << [filename |-> Path.a, status |-> "modified", patch |-> <<Patch_10>>],
             [filename |-> Path.aTest, status |-> "added",
                   patch |-> <<Patch_5_6>>] >> }]

\* The configuration loadConfig returns.
RunConfigs ==
    [ignore : [paths : {<<>>}, authors : {<<>>, << <<"c", "i">>, <<"b", "o",
          "t">> >>}],
     review : { [min_severity |-> "warning", skip_if_effort_below |-> 3] },
     output :
        [summary : BOOLEAN,
         inline_comments : BOOLEAN,
         max_inline_comments : {2},
         labels : [enabled : BOOLEAN,
                   security_issue : {<<"s", "e", "c", "u", "r", "i", "t", "y">>},
                   effort_prefix : {<<"e", "f", "f", "o", "r", "t", ":">>}]]]

\* Lines 10-29: the inputs are read, the configuration is loaded and the
\* adapter is constructed.
InitRun ==
    /\ ParseIdle
    /\ ResolveIdle
    /\ FilterIdle
    /\ ValidateIdle
    /\ apc = "new" /\ prFiles = <<>> /\ fileDiffs = NoDiffs /\ inComments = <<>>
    /\ reviews = <<>> /\ postOutcome = "none" /\ skippedCount = 0
    /\ \E config \in RunConfigs :
          /\ anConfig = [ignore |-> config.ignore, review |-> config.review]
          /\ fmtConfig = [output |-> config.output,
                          llmProviderName |-> <<"o", "l", "l", "a", "m", "a">>]
    /\ anPc = "off" /\ anPr = [author |-> <<>>, files |-> <<>>]
    /\ tree = <<Path.aTest, Path.a, Path.c>>
    /\ relevantFiles = <<>> /\ fileIndex = 0 /\ changedFiles = <<>>
    /\ relatedFiles = <<>> /\ seenPaths = {} /\ diff = <<>>
    /\ calls = <<>> /\ analysis = <<>>
    /\ fmtPc = "off" /\ fmtResponse = emptyResponse /\ fmtIssues = <<>> /\ output = <<>>
    /\ runPc = "start"
    /\ dryRun \in BOOLEAN
    /\ actionOutputs = <<>>
    /\ failures = 0
    /\ published = <<>>

\* Lines 33-42: getPullRequest returns pr, which stores the diffs; the
\* analyzer is constructed and analyze(pr) is entered.
RunGetPullRequest(pr) ==
    /\ runPc = "start"
    /\ runPc' = "analyze"
    /\ apc' = "ready"
    /\ prFiles' = pr.files
    /\ fileDiffs' = StoreDiffs(pr.files, fileDiffs)
    /\ anPr' = pr
    /\ anPc' = "start"
    /\ UNCHANGED <<inComments, reviews, postOutcome, skippedCount>>
    /\ UNCHANGED <<anConfig, tree, relevantFiles, fileIndex, changedFiles,
                   relatedFiles, seenPaths, diff, calls, analysis>>
    /\ UNCHANGED <<dryRun, actionOutputs, failures, published>>
    /\ UNCHANGED <<parseVars, resolveVars, filterVars, formatVars, validateVars>>

\* Line 33 throws (adapter.ts:28-30, or a request fails); lines 106-113.
RunGetPullRequestThrows ==
    /\ runPc = "start"
    /\ runPc' = "failed"
    /\ apc' = "failed"
    /\ failures' = failures + 1
    /\ UNCHANGED <<prFiles, fileDiffs, inComments, reviews, postOutcome,
                   skippedCount>>
    /\ UNCHANGED analyzeVars
    /\ UNCHANGED <<dryRun, actionOutputs, published>>
    /\ UNCHANGED <<parseVars, resolveVars, filterVars, formatVars, validateVars>>

\* Line 42 throws; lines 106-113.
RunAnalyzeThrows ==
    /\ runPc = "analyze"
    /\ anPc = "threw"
    /\ runPc' = "failed"
    /\ failures' = failures + 1
    /\ UNCHANGED <<dryRun, actionOutputs, published>>
    /\ UNCHANGED <<parseVars, resolveVars, adapterVars, filterVars, analyzeVars,
                   formatVars, validateVars>>

\* Lines 44-52: analyze returned a skipped result.
RunSkipped ==
    /\ runPc = "analyze"
    /\ anPc = "done"
    /\ analysis[1].skipped
    /\ actionOutputs' = << [summary |-> analysis[1].skipReason[1],
                            issues_count |-> 0,
                            critical_count |-> 0,
                            warning_count |-> 0,
                            effort_score |-> analysis[1].response.effortScore] >>
    /\ runPc' = "done"
    /\ UNCHANGED <<dryRun, failures, published>>
    /\ UNCHANGED <<parseVars, resolveVars, adapterVars, filterVars, analyzeVars,
                   formatVars, validateVars>>

\* Lines 55-76: the result is formatted, the outputs are set, and a dry run
\* returns.
RunFormat ==
    /\ runPc = "analyze"
    /\ anPc = "done"
    /\ ~analysis[1].skipped
    /\ LET response == analysis[1].response
           issues == analysis[1].filteredIssues
           count(severity) ==
               LET has(i) == i.severity = severity IN Len(SelectSeq(issues, has))
       IN  /\ fmtResponse' = response
           /\ fmtIssues' = issues
           /\ output' = << [summary |-> formatSummary(response, issues,
                                                      fmtConfig.llmProviderName),
                            inlineComments |->
                                formatInlineComments(issues,
                                    fmtConfig.output.max_inline_comments),
                            labels |-> generateLabels(response, issues,
                                                      fmtConfig.output.labels)] >>
           /\ actionOutputs' = << [summary |-> response.summary,
                                   issues_count |-> Len(issues),
                                   critical_count |-> count("critical"),
                                   warning_count |-> count("warning"),
                                   effort_score |-> response.effortScore] >>
    /\ fmtPc' = "done"
    /\ runPc' = IF dryRun THEN "done" ELSE "summary"
    /\ UNCHANGED fmtConfig
    /\ UNCHANGED <<dryRun, failures, published>>
    /\ UNCHANGED <<parseVars, resolveVars, adapterVars, filterVars, analyzeVars,
                   validateVars>>

\* Mutant: a failure of postReviewSummary is swallowed.
RunPostReviewSummarySwallows(ok) ==
    /\ runPc = "summary"
    /\ IF fmtConfig.output.summary
       THEN /\ calls' = Append(calls, Call("postReviewSummary", <<>>, <<>>,
                                           IF ok THEN "returned" ELSE "threw"))
            /\ published' = IF ok
                            THEN Append(published, [kind |-> "summary",
                                                    body |-> output[1].summary])
                            ELSE published
       ELSE UNCHANGED <<calls, published>>
    /\ runPc' = "comments"
    /\ UNCHANGED <<dryRun, actionOutputs, failures>>
    /\ UNCHANGED <<anPc, anPr, anConfig, tree, relevantFiles, fileIndex, changedFiles,
                   relatedFiles, seenPaths, diff, analysis>>
    /\ UNCHANGED <<parseVars, resolveVars, adapterVars, filterVars, formatVars,
                   validateVars>>

\* Lines 79-82 and adapter.ts:139-154: the summary is posted when
\* config.output.summary is set; `ok` tells whether createReview succeeds.
\* A throw ends the run in lines 106-113.
RunPostReviewSummary(ok) ==
    /\ runPc = "summary"
    /\ IF fmtConfig.output.summary
       THEN /\ calls' = Append(calls, Call("postReviewSummary", <<>>, <<>>,
                                           IF ok THEN "returned" ELSE "threw"))
            /\ published' = IF ok
                            THEN Append(published, [kind |-> "summary",
                                                    body |-> output[1].summary])
                            ELSE published
            /\ runPc' = IF ok THEN "comments" ELSE "failed"
            /\ failures' = IF ok THEN failures ELSE failures + 1
       ELSE /\ runPc' = "comments"
            /\ UNCHANGED <<calls, published, failures>>
    /\ UNCHANGED <<dryRun, actionOutputs>>
    /\ UNCHANGED <<anPc, anPr, anConfig, tree, relevantFiles, fileIndex,
                   changedFiles, relatedFiles, seenPaths, diff, analysis>>
    /\ UNCHANGED <<parseVars, resolveVars, adapterVars, filterVars, formatVars,
                   validateVars>>

\* Lines 84-87 and adapter.ts:156-233: the inline comments are posted when
\* config.output.inline_comments is set and there is one; getOk and createOk
\* tell whether pulls.get and pulls.createReview succeed.
RunPostInlineComments(getOk, createOk) ==
    /\ runPc = "comments"
    /\ LET comments == output[1].inlineComments
           validComments == ValidComments(comments, fileDiffs)
           threw == ~getOk \/ (validComments # <<>> /\ ~createOk)
       IN  IF fmtConfig.output.inline_comments /\ Len(comments) > 0
           THEN /\ calls' = Append(calls, Call("postInlineComments", <<>>, <<>>,
                                               IF threw THEN "threw" ELSE "returned"))
                /\ apc' = "posted"
                /\ inComments' = comments
                /\ reviews' = IF getOk /\ validComments # <<>> /\ createOk
                              THEN Append(reviews, validComments)
                              ELSE reviews
                /\ skippedCount' = IF getOk THEN Len(comments) - Len(validComments)
                                   ELSE skippedCount
                /\ postOutcome' = IF threw THEN "threw"
                                  ELSE IF validComments = <<>> THEN "allSkipped"
                                  ELSE "posted"
                /\ runPc' = IF threw THEN "failed" ELSE "labels"
                /\ failures' = IF threw THEN failures + 1 ELSE failures
           ELSE /\ runPc' = "labels"
                /\ UNCHANGED <<calls, apc, inComments, reviews, skippedCount,
                               postOutcome, failures>>
    /\ UNCHANGED <<prFiles, fileDiffs>>
    /\ UNCHANGED <<dryRun, actionOutputs, published>>
    /\ UNCHANGED <<anPc, anPr, anConfig, tree, relevantFiles, fileIndex,
                   changedFiles, relatedFiles, seenPaths, diff, analysis>>
    /\ UNCHANGED <<parseVars, resolveVars, filterVars, formatVars, validateVars>>

\* Mutant: addLabels is called whatever the configuration says.
RunAddLabelsAlways(ok) ==
    /\ runPc = "labels"
    /\ calls' = Append(calls, Call("addLabels", <<>>, <<>>,
                                   IF ok THEN "returned" ELSE "threw"))
    /\ published' = IF ok
                    THEN Append(published, [kind |-> "labels",
                                            labels |-> output[1].labels])
                    ELSE published
    /\ runPc' = IF ok THEN "done" ELSE "failed"
    /\ failures' = IF ok THEN failures ELSE failures + 1
    /\ UNCHANGED <<dryRun, actionOutputs>>
    /\ UNCHANGED <<anPc, anPr, anConfig, tree, relevantFiles, fileIndex, changedFiles,
                   relatedFiles, seenPaths, diff, analysis>>
    /\ UNCHANGED <<parseVars, resolveVars, adapterVars, filterVars, formatVars,
                   validateVars>>

\* Lines 89-105 and adapter.ts:235-253: the labels are added when labels
\* are enabled and there is one; `ok` tells whether issues.addLabels
\* succeeds.  Then run returns.
RunAddLabels(ok) ==
    /\ runPc = "labels"
    /\ IF fmtConfig.output.labels.enabled /\ Len(output[1].labels) > 0
       THEN /\ calls' = Append(calls, Call("addLabels", <<>>, <<>>,
                                           IF ok THEN "returned" ELSE "threw"))
            /\ published' = IF ok
                            THEN Append(published, [kind |-> "labels",
                                                    labels |-> output[1].labels])
                            ELSE published
            /\ runPc' = IF ok THEN "done" ELSE "failed"
            /\ failures' = IF ok THEN failures ELSE failures + 1
       ELSE /\ runPc' = "done"
            /\ UNCHANGED <<calls, published, failures>>
    /\ UNCHANGED <<dryRun, actionOutputs>>
    /\ UNCHANGED <<anPc, anPr, anConfig, tree, relevantFiles, fileIndex,
                   changedFiles, relatedFiles, seenPaths, diff, analysis>>
    /\ UNCHANGED <<parseVars, resolveVars, adapterVars, filterVars, formatVars,
                   validateVars>>

NextRun ==
    \/ \E pr \in RunPullRequests : RunGetPullRequest(pr)
    \/ RunGetPullRequestThrows
    \/ /\ runPc = "analyze"
       /\ NextAnalyze
    \/ RunAnalyzeThrows
    \/ RunSkipped
    \/ RunFormat
    \/ \E ok \in BOOLEAN : RunPostReviewSummary(ok)
    \/ \E getOk \in BOOLEAN, createOk \in BOOLEAN : RunPostInlineComments(getOk,
          createOk)
    \/ \E ok \in BOOLEAN : RunAddLabels(ok)

SpecRun == InitRun /\ [][NextRun]_vars

----------------------------------------------------------------------------
(* Properties of run, checked under SpecRun *)

\* The operations of the call log, in order, and whether one was called.
Ops == [i \in 1..Len(calls) |-> calls[i].op]

Called(op) == \E i \in 1..Len(calls) : calls[i].op = op

Threw(op) == \E i \in 1..Len(calls) : calls[i].op = op /\ calls[i].returned = "threw"

PublishOps == {"postReviewSummary", "postInlineComments", "addLabels"}

\* analyze returned a skipped result.
Skipped == anPc = "done" /\ analysis # <<>> /\ analysis[1].skipped

\* The cause of a skip and the reason it is reported with.
SkipCause ==
    CASE AuthorListed -> "author"
      [] ~AuthorListed /\ ~ModelCalled -> "files"
      [] OTHER -> "effort"

ExpectedSkipReason ==
    CASE SkipCause = "author" -> <<"P", "R", " ", "a", "u", "t", "h", "o", "r",
          " ", "b", "o", "t", " ", "i", "s", " ", "i", "n", " ", "i", "g", "n",
          "o", "r", "e", " ", "l", "i", "s", "t">>
      [] SkipCause = "files" -> <<"N", "o", " ", "r", "e", "v", "i", "e", "w", "a",
            "b", "l", "e", " ", "f", "i", "l", "e", "s", " ", "i", "n", " ", "P",
            "R">>
      [] SkipCause = "effort" -> <<"P", "R", " ", "e", "f", "f", "o", "r", "t",
            " ", "s", "c", "o", "r", "e", " ", "(", "1", ")", " ", "b", "e", "l",
            "o", "w", " ", "t", "h", "r", "e", "s", "h", "o", "l", "d", " ", "(",
            "3", ")">>

\* C23: analyze returns a skipped result exactly when the author is ignored,
\* no file is reviewable or the effort is below the threshold; a skipped run
\* ends without a failure, its outputs are the skip reason as summary and 0
\* for issues_count, critical_count and warning_count, there is no filtered
\* issue, and nothing is published.
C23_SkippedRun ==
    /\ (anPc = "done" /\ analysis # <<>>) =>
          (analysis[1].skipped <=>
              \/ AuthorListed
              \/ changedFiles = <<>>
              \/ analysis[1].response.effortScore < 3)
    /\ Skipped =>
          /\ analysis[1].filteredIssues = <<>>
          /\ analysis[1].skipReason = <<ExpectedSkipReason>>
          /\ runPc \in {"analyze", "done"}
          /\ failures = 0
          /\ published = <<>> /\ reviews = <<>>
          /\ \A op \in PublishOps : ~Called(op)
    /\ (Skipped /\ runPc = "done") =>
          /\ actionOutputs # <<>>
          /\ actionOutputs[1].summary = ExpectedSkipReason
          /\ actionOutputs[1].issues_count = 0
          /\ actionOutputs[1].critical_count = 0
          /\ actionOutputs[1].warning_count = 0

\* The model scored the effort 1 and reported three issues: the run is over
\* with the reason as summary and no issue counted.
C23_Witness ==
    /\ runPc = "done"
    /\ Skipped
    /\ ModelCalled
    /\ Len(analysis[1].response.issues) = 3
    /\ actionOutputs = << [summary |-> <<"P", "R", " ", "e", "f", "f", "o", "r",
          "t", " ", "s", "c", "o", "r", "e", " ", "(", "1", ")", " ", "b", "e",
          "l", "o", "w", " ", "t", "h", "r", "e", "s", "h", "o", "l", "d", " ",
          "(", "3", ")">>,
                           issues_count |-> 0, critical_count |-> 0,
                           warning_count |-> 0, effort_score |-> 1] >>
    /\ failures = 0

\* The issues of the result that carry a line.
IssuesWithLine ==
    IF analysis = <<>> THEN <<>>
    ELSE SelectSeq(analysis[1].filteredIssues, LAMBDA i : i.line # <<>>)

\* C24: a publish call is made only in a run that is not skipped and not a
\* dry run; postReviewSummary only when output.summary is set,
\* postInlineComments only when output.inline_comments is set and an issue
\* has a line, addLabels only when the labels are enabled and there is one.
C24_PublishGuards ==
    /\ (\E op \in PublishOps : Called(op)) =>
          /\ ~dryRun
          /\ analysis # <<>>
          /\ ~analysis[1].skipped
    /\ Called("postReviewSummary") => fmtConfig.output.summary
    /\ Called("postInlineComments") =>
          /\ fmtConfig.output.inline_comments
          /\ IssuesWithLine # <<>>
          /\ output[1].inlineComments # <<>>
    /\ Called("addLabels") =>
          /\ fmtConfig.output.labels.enabled
          /\ output[1].labels # <<>>
    /\ (runPc = "done" /\ ~dryRun /\ analysis # <<>> /\ ~analysis[1].skipped) =>
          /\ Called("postReviewSummary") <=> fmtConfig.output.summary
          /\ Called("postInlineComments") <=>
                (fmtConfig.output.inline_comments /\ IssuesWithLine # <<>>)
          /\ Called("addLabels") <=> fmtConfig.output.labels.enabled

\* A run with the summary switched off and no issue: only the labels are
\* published.
C24_Witness ==
    /\ runPc = "done"
    /\ ~dryRun
    /\ ~fmtConfig.output.summary
    /\ fmtConfig.output.inline_comments
    /\ fmtConfig.output.labels.enabled
    /\ analysis # <<>> /\ ~analysis[1].skipped
    /\ analysis[1].filteredIssues = <<>>
    /\ SelectSeq(Ops, LAMBDA op : op \in PublishOps) = <<"addLabels">>
    /\ published = << [kind |-> "labels", labels |-> <<<<"e", "f", "f", "o", "r",
          "t", ":", "3">>>>] >>

\* The place of an operation in the pipeline.
Stage(op) ==
    CASE op \in {"getFileContent", "getFilesInDirectory"} -> 1
      [] op = "analyze" -> 2
      [] op = "postReviewSummary" -> 3
      [] op = "postInlineComments" -> 4
      [] op = "addLabels" -> 5

\* C26: in the call log the content fetches and sibling listings come
\* first, then the one call of the model, then postReviewSummary, then
\* postInlineComments, then addLabels; the model and each publish operation
\* are called at most once, and nothing is published without the model
\* having been called.
C26_LinearPipeline ==
    /\ \A i, j \in 1..Len(calls) :
          i < j =>
             /\ Stage(calls[i].op) <= Stage(calls[j].op)
             /\ Stage(calls[j].op) >= 2 => Stage(calls[i].op) < Stage(calls[j].op)
    /\ (\E op \in PublishOps : Called(op)) => ModelCalled

\* A run that fetched, listed, called the model and published all three.
C26_Witness ==
    /\ runPc = "done"
    /\ Ops = <<"getFileContent", "getFilesInDirectory", "getFileContent", "analyze",
               "postReviewSummary", "postInlineComments", "addLabels">>

\* The valid new lines of the patches of RunPullRequests, written out.
ExpectedValidNewLines(filename) ==
    CASE filename = <<"s", "r", "c", "/", "a", ".", "t", "s">> -> {10}
      [] filename = <<"s", "r", "c", "/", "a", ".", "t", "e", "s", "t", ".", "t",
            "s">> -> {5, 6}

\* No fetch of a changed file returned a content.
EveryFetchFailed ==
    \A i \in 1..FetchedCount : calls[i].returned # "content"

\* C29: whatever the content fetches return, the combined diff holds the
\* header and the patch of every filtered file that has a patch, and the
\* adapter holds the parsed diff of every file of the pull request that has
\* a patch, so that a comment on a file whose fetch failed is resolved and
\* posted; and when every fetch fails the run is skipped with the reason
\* No reviewable files in PR although the diff is not empty.
C29_DiffIndependentOfFetch ==
    /\ (diff # <<>> /\ diff[1] # <<>>) =>
          SectionsAt(LinesOf(diff[1]), SelectSeq(anPr.files, ExpectedKept), 1)
    /\ runPc \notin {"start", "off"} /\ apc # "failed" =>
          \A k \in 1..Len(anPr.files) :
             ~NoPatch(anPr.files[k].patch) =>
                /\ anPr.files[k].filename \in DOMAIN fileDiffs
                /\ fileDiffs[anPr.files[k].filename].validNewLines =
                      ExpectedValidNewLines(anPr.files[k].filename)
    /\ (anPc = "done" /\ ~AuthorListed /\ EveryFetchFailed) =>
          /\ analysis[1].skipped
          /\ analysis[1].skipReason = <<<<"N", "o", " ", "r", "e", "v", "i", "e",
                "w", "a", "b", "l", "e", " ", "f", "i", "l", "e", "s", " ", "i",
                "n", " ", "P", "R">>>>
          /\ relevantFiles # <<>> => diff # <<>> /\ diff[1] # <<>>
    /\ postOutcome = "posted" =>
          /\ Len(reviews) = 1
          /\ \A i \in 1..Len(inComments) :
                (inComments[i].path = <<"s", "r", "c", "/", "a", ".", "t",
                      "s">> /\ inComments[i].line = 10) =>
                   /\ reviews[1][i].path = <<"s", "r", "c", "/", "a", ".", "t",
                         "s">>
                   /\ reviews[1][i].line = 10

\* The fetch of src/a.ts failed and that of src/a.test.ts did not: src/a.ts
\* is no changed file of the context, its section is in the diff, and the
\* comments on its line 10 are posted.
C29_Witness ==
    /\ postOutcome = "posted"
    /\ Filenames(relevantFiles) = <<<<"s", "r", "c", "/", "a", ".", "t", "s">>,
          <<"s", "r", "c", "/", "a", ".", "t", "e", "s", "t", ".", "t", "s">>>>
    /\ Paths(changedFiles) = <<<<"s", "r", "c", "/", "a", ".", "t", "e", "s", "t",
          ".", "t", "s">>>>
    /\ calls[1] = Call("getFileContent", <<"s", "r", "c", "/", "a", ".", "t",
          "s">>, <<>>, "null")
    /\ LinesOf(diff[1])[1] = ExpectedHeader(Path.a)
    /\ LinesOf(diff[1])[4] = ExpectedHeader(Path.aTest)
    /\ Len(reviews) = 1 /\ Len(reviews[1]) = 2
    /\ \A i \in 1..2 : reviews[1][i].path = <<"s", "r", "c", "/", "a", ".", "t",
          "s">> /\ reviews[1][i].line = 10

\* C30: the outputs are set before the first publish call; a publish call
\* that throws is the last call of the run, which then has failed with
\* setFailed called once: after a throw of postReviewSummary nothing is
\* posted, after a throw of postInlineComments the summary that was posted
\* is still there and no label is added; no publish operation is called
\* twice and setFailed is never called twice.
C30_PublishStopsAtFailure ==
    /\ (\E op \in PublishOps : Called(op)) =>
          /\ actionOutputs # <<>>
          /\ actionOutputs[1].summary = <<"o", "k">>
          /\ actionOutputs[1].issues_count = Len(analysis[1].filteredIssues)
          /\ actionOutputs[1].effort_score = analysis[1].response.effortScore
    /\ \A i \in 1..Len(calls) :
          calls[i].returned = "threw" =>
             /\ i = Len(calls)
             /\ runPc = "failed"
             /\ failures = 1
    /\ Threw("postReviewSummary") =>
          /\ published = <<>> /\ reviews = <<>>
          /\ ~Called("postInlineComments") /\ ~Called("addLabels")
    /\ Threw("postInlineComments") =>
          /\ reviews = <<>>
          /\ ~Called("addLabels")
          /\ published = IF fmtConfig.output.summary
                         THEN << [kind |-> "summary", body |-> output[1].summary] >>
                         ELSE <<>>
    /\ \A i, j \in 1..Len(calls) :
          (calls[i].op \in PublishOps /\ calls[i].op = calls[j].op) => i = j
    /\ failures <= 1
    /\ runPc = "failed" <=> failures = 1
    /\ runPc = "done" => failures = 0

\* The summary was posted and postInlineComments threw: the run has failed
\* once, the summary is there and addLabels was not called although the
\* labels are enabled.
C30_Witness ==
    /\ runPc = "failed"
    /\ failures = 1
    /\ fmtConfig.output.labels.enabled
    /\ SelectSeq(Ops, LAMBDA op : op \in PublishOps) =
          <<"postReviewSummary", "postInlineComments">>
    /\ Threw("postInlineComments")
    /\ Len(published) = 1 /\ published[1].kind = "summary"
    /\ actionOutputs # <<>>

====
